---- MODULE Spec2Model ----
(***************************************************************************)
(* Model of shuntly-ts: the interception wrapper (createWrapper and the    *)
(* standalone wrapper of shunt), the streaming proxy (wrapAsyncIterable)   *)
(* and the record sink the wrappers write to.                              *)
(*                                                                         *)
(* Every invocation of a wrapped callable is followed from the call to the *)
(* last operation its caller performs on the result; invocations overlap   *)
(* and share the sink.  The caller and the                                 *)
(* consumer of a tapped sequence are the environment: they may call the    *)
(* wrapper, let the promise settle, obtain iterators, call next(),         *)
(* return(), throw() and the auxiliary accessor in any order, or stop.     *)
(*                                                                         *)
(* Four specifications share the module.  Spec follows invocations of a   *)
(* wrapped callable.  SpecShunt follows shunt(client, sink, methods) on a  *)
(* client object and the calls made on its methods.  SpecSinks follows     *)
(* write() and close() on one sink object (SinkStream, SinkFile, SinkPipe, *)
(* SinkRotating, or a SinkMany over two sinks) together with the file      *)
(* system, the wall clock and the reader of the FIFO.  SpecRecord follows  *)
(* one capture from the argument list of the call to the line a sink      *)
(* emits for it.                                                           *)
(***************************************************************************)
EXTENDS Integers, Sequences, FiniteSets, TLC

\* ---------------------------------------------------------------- bounds
NInv == 2
MaxLen == 2
MaxOps == 5
MaxPlain == 1
MaxFaults == 1
MaxMethods == 2
MaxCalls == 1
MaxClock == 1
MaxSinkOps == 4
MaxAttempts == 2
MaxArgs == 2

Invs == 1..NInv

\* ---------------------------------------------------------------- values
\* the k-th item a sequence yields
Item(k) == k
Values == {7}
Errors == {[name |-> "Error", message |-> "boom"],
           [name |-> "TypeError", message |-> "down"]}
\* the error a faulting sink.write raises
SinkFault == [name |-> "Error", message |-> "EIO"]
\* the error a failing step of a sequence raises, and the one a consumer
\* passes to throw()
StepErrors == {[name |-> "RangeError", message |-> "step"]}
ThrownErrors == {[name |-> "Error", message |-> "cancel"]}
NoError == [name |-> "", message |-> ""]

WrapperKinds == {"method", "function"}
StreamKinds == {"generator", "push"}

\* variant: the record's error is the message alone
ErrString_MessageOnly(e) == e.message

\* `${err.name}: ${err.message}`
ErrString(e) == e.name \o ": " \o e.message

\* the response / error fields of a record
NullResp == [tag |-> "null", val |-> 0, list |-> <<>>]
ValueResp(v) == [tag |-> "value", val |-> v, list |-> <<>>]
ListResp(s) == [tag |-> "list", val |-> 0, list |-> s]
NullErr == "null"

\* what a caller or consumer observes from one call
ObsNone == [tag |-> "none", val |-> 0, err |-> NoError]
ObsValue(v) == [tag |-> "value", val |-> v, err |-> NoError]
ObsItem(v) == [tag |-> "item", val |-> v, err |-> NoError]
ObsDone == [tag |-> "done", val |-> 0, err |-> NoError]
ObsError(e) == [tag |-> "error", val |-> 0, err |-> e]
ObsPromise == [tag |-> "promise", val |-> 0, err |-> NoError]
ObsSeq(id) == [tag |-> "seq", val |-> id, err |-> NoError]

VARIABLES wrapper, call, str, con, sink, client, patched, obj, fs, trace,
          capture

wrapVars == <<wrapper, call, str, con, sink>>

shuntVars == <<client, patched>>

sinkVars == <<obj, fs, trace>>

vars ==
    <<wrapper, call, str, con, sink, client, patched, obj, fs, trace, capture>>

\* ---------------------------------------------------------------- labels
getClientName(wk) == IF wk = "method" THEN "Anthropic" ELSE "Unknown"

MethodLabel(wk) == IF wk = "method" THEN "messages.stream" ELSE "stream"

\* the label of the wrapper invocation i goes through: a patched client
\* has one wrapper per registry path, and the caller uses them in turn
MethodOf(wk, i) ==
    IF wk = "method" /\ i % 2 = 0 THEN "messages.create" ELSE MethodLabel(wk)

\* invocations are numbered in the order the calls are made, and the
\* caller passes a request object of its own to every call: the n-th call
\* is made with request n
Request(i) == i

\* the this-binding and the arguments the caller invokes the wrapper with:
\* a patched method is called on its parent object with the request as its
\* only argument, a wrapped function is called unbound with a model and
\* the request
CallerThis(wk) == IF wk = "method" THEN "messages" ELSE "undefined"

CallerArgs(wk, i) ==
    IF wk = "method" THEN <<Request(i)>> ELSE <<0, Request(i)>>

\* variant: the original is called as a plain function, func(...args)
apply_Unbound(this, args) == [this |-> "undefined", args |-> args]

\* func.apply(this, args): what the original callable receives
apply(this, args) == [this |-> this, args |-> args]

\* ---------------------------------------------------------------- sink
\* ShuntlyRecord.build: the record keeps the response it is given by
\* reference (no copy)
\* variant: the request is kept in a variable of the wrapper that all
\* its calls share: it holds the request of the call made last
Build_SharedRequest(i, wk, response, err) ==
    [inv |-> i, client |-> getClientName(wk), method |-> MethodOf(wk, i),
     request |-> Request(CHOOSE j \in Invs :
                            /\ j = i \/ call[j].pc # "idle"
                            /\ \A k \in Invs : call[k].pc # "idle" => k <= j),
     response |-> response, error |-> err]

Build(i, wk, response, err) ==
    [inv |-> i, client |-> getClientName(wk), method |-> MethodOf(wk, i),
     request |-> Request(i), response |-> response, error |-> err]

\* sink.write(record): pushes the record, or faults and stores nothing
SinkWrite(sk, rec, ok) ==
    IF ok
    THEN [sk EXCEPT !.records = Append(@, rec),
                    !.attempts[rec.inv] = @ + 1]
    ELSE [sk EXCEPT !.attempts[rec.inv] = @ + 1,
                    !.faults[rec.inv] = @ + 1]

\* variant: the record is built but never handed to the sink
recordAndWrite_NoWrite(sk, i, wk, response, err, ok) == sk

\* recordAndWrite(response, err)
recordAndWrite(sk, i, wk, response, err, ok) ==
    SinkWrite(sk, Build(i, wk, response, err), ok)

\* chunks.push(value) seen through the records that hold the chunks array
PushAlias(sk, i, newChunks) ==
    [sk EXCEPT !.records =
        [k \in 1..Len(@) |->
            IF @[k].inv = i /\ @[k].response.tag = "list"
            THEN [@[k] EXCEPT !.response = ListResp(newChunks)]
            ELSE @[k]]]

RecordsOf(i) == SelectSeq(sink.records, LAMBDA r : r.inv = i)

\* ---------------------------------------------------------------- clients
\* constructor names of the objects handed to shunt; "Custom" has no
\* registry entry
ClientNames == {"Anthropic", "OpenAI", "GoogleGenAI", "Custom"}

HasRegistry(name) == name \in {"Anthropic", "OpenAI", "GoogleGenAI"}

METHOD_REGISTRY(name) ==
    CASE name = "Anthropic" -> <<"messages.create", "messages.stream">>
      [] name = "OpenAI" -> <<"chat.completions.create">>
      [] name = "GoogleGenAI" ->
             <<"models.generateContent", "models.generateContentStream">>
      [] OTHER -> <<>>

\* the dotted paths a method list may name
Paths == {"messages.create", "messages.stream", "chat.completions.create",
          "models.generateContent", "models.generateContentStream", "run"}

\* the intermediate object a path walks through ("" for a top-level name)
Parent(path) ==
    CASE path \in {"messages.create", "messages.stream"} -> "messages"
      [] path = "chat.completions.create" -> "chat.completions"
      [] path \in {"models.generateContent",
                   "models.generateContentStream"} -> "models"
      [] OTHER -> ""

Parents == {"messages", "chat.completions", "models"}

\* a client object: its constructor name, for every path whether the
\* final value is a function and how many wrappers are stacked in the
\* slot, and the intermediates that are undefined
NewClient(type, broken) ==
    [type |-> type,
     slots |-> [p \in Paths |-> [callable |-> p # broken, layers |-> 0]],
     gone |-> {q \in Parents : q = broken}]

Clients ==
    {NewClient(t, b) : t \in ClientNames, b \in {"none"} \cup Paths \cup Parents}

\* the outcome of shunt(client, sink, methods), the calls made on the
\* client's methods and the records the sink passed to shunt received
InitPatched ==
    [outcome |-> "none", error |-> "", given |-> FALSE,
     invoked |-> [p \in Paths |-> 0], records |-> <<>>]

\* ---------------------------------------------------------------- sink objects
SinkKinds == {"stream", "file", "pipe", "rotating"}

\* the sink under test: a single sink, or a SinkMany over two sinks
Layouts ==
    {<<k>> : k \in SinkKinds}
        \cup {<<"file", "stream">>, <<"stream", "file">>, <<"pipe", "stream">>}

\* byte length of a record line, and the limits a rotating sink is
\* constructed with (a limit of 0 or less disables pruning)
RecSizes == {1, 2}
FileLimits == {1, 2}
DirLimits == {-1, 0, 1, 2}

\* two of the values the three random digits of a file name can take
RandDigits == {0, 1}

\* names makeFilename can produce: the millisecond of the clock and the
\* random digits that follow it
Names == (0..MaxClock) \X RandDigits

\* the fields of a sink object; fd 0 and filePath <<>> stand for null
NewSinkObj(kind, m, d) ==
    [kind |-> kind, fd |-> 0, filePath |-> <<>>, fileSize |-> 0,
     maxBytesFile |-> IF kind = "rotating" THEN m ELSE 0,
     maxBytesDir |-> IF kind = "rotating" THEN d ELSE 0]

\* the operating system: the rotating sink's directory (size of every
\* file, -1 when the name does not exist) with the system calls of the
\* most recent write() or close() that made any, the file of SinkFile, the
\* FIFO of SinkPipe (with the bytes it has taken and the outcomes of the
\* system calls the most recent write() made on it), the stream of
\* SinkStream, the descriptor table, the wall clock and the number of I/O
\* faults injected so far
InitFs(node, reader) ==
    [dir |-> [n \in Names |-> -1],
     calls |-> <<>>,
     flat |-> -1,
     fifo |-> [node |-> node, reader |-> reader, got |-> <<>>, sys |-> <<>>],
     stream |-> 0,
     fds |-> <<>>,
     now |-> 0,
     faults |-> 0]

\* what the program has done with the sink: number of operations, the
\* last two operations, the result of the last one for every sink it
\* reached, whether close() has ever been called, whether a write() is
\* still spinning, and the byte length of the record lines it writes
InitTrace(size) ==
    [n |-> 0, op |-> "none", prev |-> "none", results |-> <<>>,
     closed |-> FALSE, hung |-> FALSE, recSize |-> size]

\* no sink object is under test
IdleSinks ==
    /\ obj = <<>>
    /\ fs = InitFs("absent", FALSE)
    /\ trace = InitTrace(1)

\* ---------------------------------------------------------------- init
InitCall == [pc |-> "idle", orig |-> "none",
             origVal |-> 0, origErr |-> NoError, seen |-> ObsNone,
             invoked |-> 0, req |-> 0, recv |-> <<>>]

InitStr == [kind |-> "generator", tapped |-> FALSE, wrapped |-> FALSE,
            origId |-> 0, id |-> 0, entry |-> "none", result |-> "none",
            iters |-> <<>>, chunks |-> <<>>, emitted |-> <<>>,
            itState |-> "open", plainState |-> "open",
            stepErr |-> NoError, nComplete |-> 0, nError |-> 0]

InitCon == [hist |-> <<>>, got |-> <<>>, last |-> ObsNone,
            plainCalls |-> 0, plainGot |-> <<>>, abandoned |-> FALSE,
            resultSeen |-> 0]

InitSink == [records |-> <<>>,
             attempts |-> [i \in Invs |-> 0],
             faults |-> [i \in Invs |-> 0]]

\* no wrapped callable has been invoked
IdleWrap ==
    /\ wrapper = "method"
    /\ call = [i \in Invs |-> InitCall]
    /\ str = [i \in Invs |-> InitStr]
    /\ con = [i \in Invs |-> InitCon]
    /\ sink = InitSink

\* ---------------------------------------------------------------- captures
\* JavaScript values, by what typeof, Array.isArray and JSON.stringify
\* tell apart: id tells two values of one kind apart, toJSON is the kind
\* of value the object's toJSON method returns ("none": no such method)
JsKinds == {"undefined", "null", "number", "string", "array", "object"}

Js(kind, id) == [kind |-> kind, id |-> id, toJSON |-> "none"]

JsNull == Js("null", 0)

\* the argument lists of a call: the k-th argument has id k
ArgLists ==
    UNION {{[k \in 1..n |-> Js(kinds[k], k)] : kinds \in [1..n -> JsKinds]} :
              n \in 0..MaxArgs}

NoRequest == [tag |-> "none", val |-> JsNull, args |-> <<>>]

NoRecord ==
    [client |-> "", method |-> "", request |-> NoRequest,
     response |-> JsNull, error |-> NullErr]

NoLine == [sink |-> "none", keys |-> <<>>, breaks |-> 0]

\* one capture: the wrapper and the arguments it is called with, the
\* request derived from them, the outcome of the original, the record
\* built for it and the line a sink emits
InitCapture(wk, args) ==
    [pc |-> "idle", wrapper |-> wk, args |-> args, request |-> NoRequest,
     outcome |-> "none", record |-> NoRecord, line |-> NoLine]

\* no capture is followed
IdleCapture == capture = InitCapture("method", <<>>)

\* no client object is being patched
IdleShunt ==
    /\ client = NewClient("Anthropic", "none")
    /\ patched = InitPatched

Init ==
    /\ wrapper \in WrapperKinds
    /\ call = [i \in Invs |-> InitCall]
    /\ str = [i \in Invs |-> InitStr]
    /\ con = [i \in Invs |-> InitCon]
    /\ sink = InitSink
    /\ IdleShunt
    /\ IdleSinks
    /\ IdleCapture

\* ---------------------------------------------------------------- budget
RECURSIVE SumTo(_, _)
SumTo(f, n) == IF n = 0 THEN 0 ELSE f[n] + SumTo(f, n - 1)

\* operations performed for invocation i: the call, the settlement of its
\* promise, and every operation of the consumer on the tapped sequence
Ops(i) ==
    (IF call[i].pc = "idle" THEN 0 ELSE 1)
    + (IF call[i].orig = "promise" /\ call[i].pc # "pending" THEN 1 ELSE 0)
    + Len(str[i].iters) + Len(con[i].hist) + con[i].plainCalls
    + (IF con[i].resultSeen # 0 THEN 1 ELSE 0)
    + (IF con[i].abandoned THEN 1 ELSE 0)

TotalOps == SumTo([i \in Invs |-> Ops(i)], NInv)

\* a sink.write may fault while fewer than MaxFaults writes have faulted
TotalFaults == SumTo(sink.faults, NInv)

Oks == IF TotalFaults < MaxFaults THEN BOOLEAN ELSE {TRUE}

Oks2(ok1) == IF TotalFaults + (IF ok1 THEN 0 ELSE 1) < MaxFaults
             THEN BOOLEAN ELSE {TRUE}

\* a step of the tapped sequence has reported done or failed, or the
\* consumer has called return() or throw()
Terminated(i) ==
    \E k \in 1..Len(con[i].hist) :
        con[i].hist[k] \in {"done", "fail", "return", "throw"}

\* ---------------------------------------------------------------- proxy
\* the sequence object the original callable produced: its identity, its
\* iteration entry point and its auxiliary accessor result()
NewSequence(i, sk) ==
    [InitStr EXCEPT !.kind = sk, !.origId = i, !.id = i,
                    !.entry = "original", !.result = "original"]

\* variant: the sequence is replaced by a new generator object that only
\* iterates
wrapAsyncIterable_Replace(s) ==
    [s EXCEPT !.tapped = TRUE, !.entry = "instrumented", !.wrapped = FALSE,
              !.id = s.origId + NInv, !.result = "missing"]

\* wrapAsyncIterable: overrides [Symbol.asyncIterator] on the object itself
\* and returns the same object
wrapAsyncIterable(s) ==
    [s EXCEPT !.tapped = TRUE, !.entry = "instrumented", !.wrapped = FALSE]

\* variant: every call of the entry point installs instrumentation
EntryPoint_Always(s) ==
    [s EXCEPT !.wrapped = TRUE, !.iters = Append(@, "instrumented")]

\* [Symbol.asyncIterator]() on the sequence object: the override hands out
\* the instrumented iterator once and originalMethod() afterwards
EntryPoint(s) ==
    IF s.entry = "instrumented" /\ ~s.wrapped
    THEN [s EXCEPT !.wrapped = TRUE, !.iters = Append(@, "instrumented"),
                   !.chunks = <<>>]
    ELSE [s EXCEPT !.iters = Append(@, "plain"), !.plainState = "open"]

\* what iter.next() of the underlying iterator can do: an async generator
\* (test mocks) yields, finishes or throws and is closed afterwards; a
\* push stream (PushStream of the tests) yields until ended, never throws
UnderlyingNext(kind, state, n) ==
    IF state = "closed"
    THEN {[tag |-> "done", val |-> 0, err |-> NoError]}
    ELSE {[tag |-> "item", val |-> v, err |-> NoError] :
              v \in IF n < MaxLen THEN {Item(n + 1)} ELSE {}}
         \cup {[tag |-> "done", val |-> 0, err |-> NoError]}
         \cup {[tag |-> "fail", val |-> 0, err |-> e] :
              e \in IF kind = "generator" THEN StepErrors ELSE {}}

AfterNext(state, tag) == IF tag = "item" THEN state ELSE "closed"

\* variant: next() reports completion after every item
NextItem_Eager(s, sk, i, wk, v) ==
    [str |-> [s EXCEPT !.chunks = Append(@, v), !.nComplete = @ + 1],
     sink |-> recordAndWrite(sk, i, wk, ListResp(Append(s.chunks, v)),
                             NullErr, TRUE),
     obs |-> ObsItem(v)]

\* variant: next() forwards the item but does not buffer it
NextItem_NoPush(s, sk, i, wk, v) ==
    [str |-> s, sink |-> sk, obs |-> ObsItem(v)]

\* next(): the step yielded v -- chunks.push(result.value); return result
NextItem(s, sk, i, wk, v) ==
    [str |-> [s EXCEPT !.chunks = Append(@, v)],
     sink |-> PushAlias(sk, i, Append(s.chunks, v)),
     obs |-> ObsItem(v)]

\* next(): the step reported done -- onComplete(chunks); a fault of the
\* write is caught by the catch block, which calls onError and rethrows
NextDone(s, sk, i, wk, ok1, ok2) ==
    LET s1 == recordAndWrite(sk, i, wk, ListResp(s.chunks), NullErr, ok1)
        s2 == recordAndWrite(s1, i, wk, NullResp, ErrString(SinkFault), ok2)
    IN  IF ok1
        THEN [str |-> [s EXCEPT !.nComplete = @ + 1],
              sink |-> s1, obs |-> ObsDone]
        ELSE [str |-> [s EXCEPT !.nComplete = @ + 1, !.nError = @ + 1],
              sink |-> s2, obs |-> ObsError(SinkFault)]

\* variant: a failing step records the items buffered so far
NextFail_KeepChunks(s, sk, i, wk, e, ok1) ==
    LET s1 == recordAndWrite(sk, i, wk, ListResp(s.chunks), ErrString(e), ok1)
    IN  [str |-> [s EXCEPT !.nError = @ + 1],
         sink |-> s1,
         obs |-> IF ok1 THEN ObsError(e) ELSE ObsError(SinkFault)]

\* next(): the step failed with e -- onError(error); throw error
NextFail(s, sk, i, wk, e, ok1) ==
    LET s1 == recordAndWrite(sk, i, wk, NullResp, ErrString(e), ok1)
    IN  [str |-> [s EXCEPT !.nError = @ + 1],
         sink |-> s1,
         obs |-> IF ok1 THEN ObsError(e) ELSE ObsError(SinkFault)]

\* variant: return() reports early termination through the error callback
ProxyReturn_AsError(s, sk, i, wk, ok1) ==
    LET s1 == recordAndWrite(sk, i, wk, NullResp, "Error: cancelled", ok1)
    IN  IF ok1
        THEN [str |-> [s EXCEPT !.nError = @ + 1,
                                !.itState = IF s.kind = "generator"
                                            THEN "closed" ELSE @],
              sink |-> s1, obs |-> ObsDone]
        ELSE [str |-> [s EXCEPT !.nError = @ + 1],
              sink |-> s1, obs |-> ObsError(SinkFault)]

\* return(value): onComplete(chunks), then iter.return(value) if the
\* underlying iterator has one, else { value, done: true }
ProxyReturn(s, sk, i, wk, ok1) ==
    LET s1 == recordAndWrite(sk, i, wk, ListResp(s.chunks), NullErr, ok1)
    IN  IF ok1
        THEN [str |-> [s EXCEPT !.nComplete = @ + 1,
                                !.itState = IF s.kind = "generator"
                                            THEN "closed" ELSE @],
              sink |-> s1, obs |-> ObsDone]
        ELSE [str |-> [s EXCEPT !.nComplete = @ + 1],
              sink |-> s1, obs |-> ObsError(SinkFault)]

\* throw(error): onError(error), then iter.throw(error) if the underlying
\* iterator has one, else throw error
ProxyThrow(s, sk, i, wk, e, ok1) ==
    LET s1 == recordAndWrite(sk, i, wk, NullResp, ErrString(e), ok1)
    IN  IF ok1
        THEN [str |-> [s EXCEPT !.nError = @ + 1,
                                !.itState = IF s.kind = "generator"
                                            THEN "closed" ELSE @],
              sink |-> s1, obs |-> ObsError(e)]
        ELSE [str |-> [s EXCEPT !.nError = @ + 1],
              sink |-> s1, obs |-> ObsError(SinkFault)]

\* ---------------------------------------------------------------- wrapper
\* the wrapper body for a callable that returns the plain value v
\* (try: recordAndWrite(result, null); catch: recordAndWrite(null, error))
SyncValue(c, sk, i, wk, v, ok1, ok2) ==
    LET s1 == recordAndWrite(sk, i, wk, ValueResp(v), NullErr, ok1)
        s2 == recordAndWrite(s1, i, wk, NullResp, ErrString(SinkFault), ok2)
    IN  IF ok1
        THEN [call |-> [c EXCEPT !.pc = "returned", !.seen = ObsValue(v)],
              sink |-> s1]
        ELSE [call |-> [c EXCEPT !.pc = "thrown", !.seen = ObsError(SinkFault)],
              sink |-> s2]

\* the wrapper body for a callable that throws e synchronously
SyncThrow(c, sk, i, wk, e, ok1) ==
    LET s1 == recordAndWrite(sk, i, wk, NullResp, ErrString(e), ok1)
    IN  [call |-> [c EXCEPT !.pc = "thrown",
                           !.seen = IF ok1 THEN ObsError(e)
                                    ELSE ObsError(SinkFault)],
         sink |-> s1]

\* the onFulfilled continuation for a resolved value that is no sequence
ResolveValue(c, sk, i, wk, v, ok1) ==
    LET s1 == recordAndWrite(sk, i, wk, ValueResp(v), NullErr, ok1)
    IN  [call |-> [c EXCEPT !.pc = IF ok1 THEN "resolved" ELSE "rejected",
                           !.seen = IF ok1 THEN ObsValue(v)
                                    ELSE ObsError(SinkFault)],
         sink |-> s1]

\* the onRejected continuation
RejectError(c, sk, i, wk, e, ok1) ==
    LET s1 == recordAndWrite(sk, i, wk, NullResp, ErrString(e), ok1)
    IN  [call |-> [c EXCEPT !.pc = "rejected",
                           !.seen = IF ok1 THEN ObsError(e)
                                    ELSE ObsError(SinkFault)],
         sink |-> s1]

\* the original callable is invoked for invocation i: what it has received
OriginalCall(recv, i) ==
    Append(recv, apply(CallerThis(wrapper), CallerArgs(wrapper, i)))

\* invocation i is the next call the program makes
IsNextCall(i) == \A j \in Invs : j < i => call[j].pc # "idle"

\* a wrapped callable is invoked and returns a plain value
CallValue(i) ==
    /\ call[i].pc = "idle"
    /\ IsNextCall(i)
    /\ TotalOps < MaxOps
    /\ \E v \in Values, ok1 \in Oks : \E ok2 \in Oks2(ok1) :
          LET c == [call[i] EXCEPT !.orig = "value",
                                   !.origVal = v, !.invoked = @ + 1,
                                   !.req = Request(i),
                                   !.recv = OriginalCall(@, i)]
              r == SyncValue(c, sink, i, wrapper, v, ok1, ok2)
          IN  /\ call' = [call EXCEPT ![i] = r.call]
              /\ sink' = r.sink
    /\ UNCHANGED <<wrapper, str, con>>
    /\ UNCHANGED <<shuntVars, sinkVars, capture>>

\* a wrapped callable is invoked and throws synchronously
CallThrow(i) ==
    /\ call[i].pc = "idle"
    /\ IsNextCall(i)
    /\ TotalOps < MaxOps
    /\ \E e \in Errors, ok1 \in Oks :
          LET c == [call[i] EXCEPT !.orig = "throw",
                                   !.origErr = e, !.invoked = @ + 1,
                                   !.req = Request(i),
                                   !.recv = OriginalCall(@, i)]
              r == SyncThrow(c, sink, i, wrapper, e, ok1)
          IN  /\ call' = [call EXCEPT ![i] = r.call]
              /\ sink' = r.sink
    /\ UNCHANGED <<wrapper, str, con>>
    /\ UNCHANGED <<shuntVars, sinkVars, capture>>

\* a wrapped callable is invoked and returns a promise: the wrapper
\* attaches its continuations and returns the derived promise
CallPromise(i) ==
    /\ call[i].pc = "idle"
    /\ IsNextCall(i)
    /\ TotalOps < MaxOps
    /\ call' = [call EXCEPT ![i] =
                  [@ EXCEPT !.orig = "promise",
                            !.invoked = @ + 1, !.req = Request(i),
                            !.recv = OriginalCall(@, i),
                            !.pc = "pending",
                            !.seen = ObsPromise]]
    /\ UNCHANGED <<wrapper, str, con, sink>>
    /\ UNCHANGED <<shuntVars, sinkVars, capture>>

\* a wrapped callable is invoked and returns a sequence directly
CallSequence(i) ==
    /\ call[i].pc = "idle"
    /\ IsNextCall(i)
    /\ TotalOps < MaxOps
    /\ \E sk \in StreamKinds :
          LET t == wrapAsyncIterable(NewSequence(i, sk))
          IN  /\ str' = [str EXCEPT ![i] = t]
              /\ call' = [call EXCEPT ![i] =
                            [@ EXCEPT !.orig = "seq",
                                      !.invoked = @ + 1, !.req = Request(i),
                            !.recv = OriginalCall(@, i),
                                      !.pc = "streaming",
                                      !.seen = ObsSeq(t.id)]]
    /\ UNCHANGED <<wrapper, con, sink>>
    /\ UNCHANGED <<shuntVars, sinkVars, capture>>

\* the promise resolves to a value that is no sequence
SettleValue(i) ==
    /\ call[i].pc = "pending"
    /\ TotalOps < MaxOps
    /\ \E v \in Values, ok1 \in Oks :
          LET c == [call[i] EXCEPT !.origVal = v]
              r == ResolveValue(c, sink, i, wrapper, v, ok1)
          IN  /\ call' = [call EXCEPT ![i] = r.call]
              /\ sink' = r.sink
    /\ UNCHANGED <<wrapper, str, con>>
    /\ UNCHANGED <<shuntVars, sinkVars, capture>>

\* the promise rejects
SettleReject(i) ==
    /\ call[i].pc = "pending"
    /\ TotalOps < MaxOps
    /\ \E e \in Errors, ok1 \in Oks :
          LET c == [call[i] EXCEPT !.origErr = e]
              r == RejectError(c, sink, i, wrapper, e, ok1)
          IN  /\ call' = [call EXCEPT ![i] = r.call]
              /\ sink' = r.sink
    /\ UNCHANGED <<wrapper, str, con>>
    /\ UNCHANGED <<shuntVars, sinkVars, capture>>

\* the promise resolves to a sequence
SettleSequence(i) ==
    /\ call[i].pc = "pending"
    /\ TotalOps < MaxOps
    /\ \E sk \in StreamKinds :
          LET t == wrapAsyncIterable(NewSequence(i, sk))
          IN  /\ str' = [str EXCEPT ![i] = t]
              /\ call' = [call EXCEPT ![i] =
                            [@ EXCEPT !.pc = "streaming",
                                      !.seen = ObsSeq(t.id)]]
    /\ UNCHANGED <<wrapper, con, sink>>
    /\ UNCHANGED <<shuntVars, sinkVars, capture>>

\* ---------------------------------------------------------------- consumer
CanOperate(i) ==
    /\ call[i].pc = "streaming"
    /\ ~con[i].abandoned
    /\ TotalOps < MaxOps

HasInstrumented(i) == \E k \in 1..Len(str[i].iters) : str[i].iters[k] = "instrumented"

\* the consumer holds the instrumented iterator and may call it
CanStep(i) ==
    /\ CanOperate(i)
    /\ HasInstrumented(i)

HasPlain(i) == \E k \in 1..Len(str[i].iters) : str[i].iters[k] = "plain"

\* the consumer calls seq[Symbol.asyncIterator]()
GetIterator(i) ==
    /\ CanOperate(i)
    /\ Len(str[i].iters) < 1 + MaxPlain
    /\ str' = [str EXCEPT ![i] = EntryPoint(@)]
    /\ UNCHANGED <<wrapper, call, con, sink>>
    /\ UNCHANGED <<shuntVars, sinkVars, capture>>

\* the consumer calls next() on the instrumented iterator
ProxyNext(i) ==
    /\ CanStep(i)
    /\ \E o \in UnderlyingNext(str[i].kind, str[i].itState,
                               IF str[i].kind = "push"
                               THEN Len(str[i].emitted) + Len(con[i].plainGot)
                               ELSE Len(str[i].emitted)),
          ok1 \in Oks : \E ok2 \in Oks2(ok1) :
          LET wk == wrapper
              s0 == [str[i] EXCEPT !.itState = AfterNext(@, o.tag),
                                   !.stepErr = o.err,
                                   !.emitted = IF o.tag = "item"
                                               THEN Append(@, o.val) ELSE @]
              r == CASE o.tag = "item" -> NextItem(s0, sink, i, wk, o.val)
                     [] o.tag = "done" -> NextDone(s0, sink, i, wk, ok1, ok2)
                     [] o.tag = "fail" -> NextFail(s0, sink, i, wk, o.err, ok1)
          IN  /\ str' = [str EXCEPT ![i] = r.str]
              /\ sink' = r.sink
              /\ con' = [con EXCEPT ![i] =
                           [@ EXCEPT !.hist = Append(@, o.tag),
                                     !.got = IF r.obs.tag = "item"
                                             THEN Append(@, r.obs.val) ELSE @,
                                     !.last = r.obs]]
    /\ UNCHANGED <<wrapper, call>>
    /\ UNCHANGED <<shuntVars, sinkVars, capture>>

\* the consumer calls return() on the instrumented iterator
ConsumerReturn(i) ==
    /\ CanStep(i)
    /\ \E ok1 \in Oks :
          LET r == ProxyReturn(str[i], sink, i, wrapper, ok1)
          IN  /\ str' = [str EXCEPT ![i] = r.str]
              /\ sink' = r.sink
              /\ con' = [con EXCEPT ![i] =
                           [@ EXCEPT !.hist = Append(@, "return"),
                                     !.last = r.obs]]
    /\ UNCHANGED <<wrapper, call>>
    /\ UNCHANGED <<shuntVars, sinkVars, capture>>

\* the consumer calls throw(e) on the instrumented iterator
ConsumerThrow(i) ==
    /\ CanStep(i)
    /\ \E e \in ThrownErrors, ok1 \in Oks :
          LET r == ProxyThrow(str[i], sink, i, wrapper, e, ok1)
          IN  /\ str' = [str EXCEPT ![i] = r.str]
              /\ sink' = r.sink
              /\ con' = [con EXCEPT ![i] =
                           [@ EXCEPT !.hist = Append(@, "throw"),
                                     !.last = r.obs]]
    /\ UNCHANGED <<wrapper, call>>
    /\ UNCHANGED <<shuntVars, sinkVars, capture>>

\* the consumer calls next() on a plain iterator (originalMethod())
PlainNext(i) ==
    /\ CanOperate(i)
    /\ HasPlain(i)
    /\ LET shared == str[i].kind = "push"
           st == IF shared THEN str[i].itState ELSE str[i].plainState
           n == IF shared THEN Len(str[i].emitted) + Len(con[i].plainGot)
                ELSE Len(con[i].plainGot)
       IN  \E o \in UnderlyingNext(str[i].kind, st, n) :
              /\ str' = [str EXCEPT ![i] =
                           IF shared
                           THEN [@ EXCEPT !.itState = AfterNext(@, o.tag)]
                           ELSE [@ EXCEPT !.plainState = AfterNext(@, o.tag)]]
              /\ con' = [con EXCEPT ![i] =
                           [@ EXCEPT !.plainCalls = @ + 1,
                                     !.plainGot = IF o.tag = "item"
                                                  THEN Append(@, o.val) ELSE @]]
    /\ UNCHANGED <<wrapper, call, sink>>
    /\ UNCHANGED <<shuntVars, sinkVars, capture>>

\* the caller uses the auxiliary accessor result() of the sequence object;
\* it runs against the object it is a member of
CallResult(i) ==
    /\ CanOperate(i)
    /\ str[i].result = "original"
    /\ con[i].resultSeen = 0
    /\ con' = [con EXCEPT ![i] = [@ EXCEPT !.resultSeen = str[i].id]]
    /\ UNCHANGED <<wrapper, call, str, sink>>
    /\ UNCHANGED <<shuntVars, sinkVars, capture>>

\* the consumer drops the sequence before any terminal event and never
\* touches it again
Abandon(i) ==
    /\ CanOperate(i)
    /\ ~Terminated(i)
    /\ con' = [con EXCEPT ![i] = [@ EXCEPT !.abandoned = TRUE]]
    /\ UNCHANGED <<wrapper, call, str, sink>>
    /\ UNCHANGED <<shuntVars, sinkVars, capture>>

Next ==
    \E i \in Invs :
        \/ CallValue(i)
        \/ CallThrow(i)
        \/ CallPromise(i)
        \/ CallSequence(i)
        \/ SettleValue(i)
        \/ SettleReject(i)
        \/ SettleSequence(i)
        \/ GetIterator(i)
        \/ ProxyNext(i)
        \/ ConsumerReturn(i)
        \/ ConsumerThrow(i)
        \/ PlainNext(i)
        \/ CallResult(i)
        \/ Abandon(i)

Spec == Init /\ [][Next]_vars

\* the event loop runs every enabled continuation, and a consumer that has
\* not dropped the sequence keeps operating on it
FairSpec == Spec /\ WF_vars(Next)

\* ---------------------------------------------------------------- shunt
UnknownClientError(name) ==
    "Unknown client \"" \o name
        \o "\". Pass methods option to specify which methods to patch."

\* resolveQualified(obj, path): the error it throws, "" when it returns
resolveQualified(c, path) ==
    IF Parent(path) \in c.gone
    THEN "Invalid method path: " \o path
    ELSE IF ~c.slots[path].callable
         THEN path \o " is not a function"
         ELSE ""

\* for (const method of methods): resolve, create the wrapper, assign it
\* to the slot; a throw of resolveQualified leaves the loop
RECURSIVE PatchLoop(_, _, _)
PatchLoop(c, methods, k) ==
    IF k > Len(methods)
    THEN [client |-> c, error |-> ""]
    ELSE IF resolveQualified(c, methods[k]) # ""
         THEN [client |-> c, error |-> resolveQualified(c, methods[k])]
         ELSE PatchLoop([c EXCEPT !.slots[methods[k]].layers = @ + 1],
                        methods, k + 1)

\* variant: an unknown client without a method list gets every path
\* patched instead of an error
shunt_PatchUnknown(c, given, methods) ==
    IF ~given /\ ~HasRegistry(c.type)
    THEN PatchLoop(c, <<"run">>, 1)
    ELSE PatchLoop(c, IF given THEN methods ELSE METHOD_REGISTRY(c.type), 1)

\* shunt(client, sink, methods), object branch
shunt(c, given, methods) ==
    IF ~given /\ ~HasRegistry(c.type)
    THEN [client |-> c, error |-> UnknownClientError(c.type)]
    ELSE PatchLoop(c, IF given THEN methods ELSE METHOD_REGISTRY(c.type), 1)

RECURSIVE SumOver(_, _)
SumOver(f, S) ==
    IF S = {} THEN 0
    ELSE LET x == CHOOSE x \in S : TRUE
         IN  f[x] + SumOver(f, S \ {x})

MethodLists == UNION {[1..n -> Paths] : n \in 0..MaxMethods}

\* the program calls shunt on the client, with or without a method list
Shunt ==
    /\ patched.outcome = "none"
    /\ \E given \in BOOLEAN :
       \E methods \in IF given THEN MethodLists ELSE {<<>>} :
          LET r == shunt(client, given, methods)
          IN  /\ client' = r.client
              /\ patched' = [patched EXCEPT
                                !.outcome = IF r.error = "" THEN "returned"
                                            ELSE "thrown",
                                !.error = r.error,
                                !.given = given]
    /\ UNCHANGED <<wrapVars, sinkVars, capture>>

\* the program calls client.<path>(...): every wrapper stacked in the
\* slot writes a record, the original method runs once
CallMethod(path) ==
    /\ Parent(path) \notin client.gone
    /\ client.slots[path].callable
    /\ SumOver(patched.invoked, Paths) < MaxCalls
    /\ patched' = [patched EXCEPT
                      !.invoked[path] = @ + 1,
                      !.records = @ \o [k \in 1..client.slots[path].layers |->
                                          [client |-> client.type,
                                           method |-> path]]]
    /\ UNCHANGED client
    /\ UNCHANGED <<wrapVars, sinkVars, capture>>

InitShunt ==
    /\ IdleWrap
    /\ IdleSinks
    /\ IdleCapture
    /\ client \in Clients
    /\ patched = InitPatched

NextShunt ==
    \/ Shunt
    \/ \E path \in Paths : CallMethod(path)

SpecShunt == InitShunt /\ [][NextShunt]_vars

\* ---------------------------------------------------------------- file system
Files(f) == {n \in Names : f.dir[n] >= 0}

RECURSIVE TotalSize(_, _)
TotalSize(f, S) ==
    IF S = {} THEN 0
    ELSE LET x == CHOOSE x \in S : TRUE
         IN  f.dir[x] + TotalSize(f, S \ {x})

\* a.localeCompare(b) < 0 for two names of equal width
NameLess(a, b) == a[1] < b[1] \/ (a[1] = b[1] /\ a[2] < b[2])

Oldest(S) == CHOOSE n \in S : \A m \in S \ {n} : NameLess(n, m)

IsOpen(f, fd) == fd \in 1..Len(f.fds) /\ f.fds[fd].open

\* fs.openSync: a new descriptor; flag "a" creates the file when missing
openSync(f, kind, name) ==
    [f EXCEPT !.fds = Append(@, [kind |-> kind, name |-> name, open |-> TRUE]),
              !.dir = IF kind = "rotating"
                      THEN [@ EXCEPT ![name] = IF @ < 0 THEN 0 ELSE @]
                      ELSE @,
              !.flat = IF kind = "file" /\ @ < 0 THEN 0 ELSE @]

\* fs.closeSync on an open descriptor
closeSync(f, fd) == [f EXCEPT !.fds[fd].open = FALSE]

Fault(f) == [f EXCEPT !.faults = @ + 1]

\* one system call in the rotating sink's directory, as the log keeps it
Call(f, tag, name) ==
    [f EXCEPT !.calls = Append(@, [tag |-> tag, name |-> name])]

Result(s, f, res, made) == [obj |-> s, fs |-> f, res |-> res, made |-> made]

\* ---------------------------------------------------------------- SinkStream
writeStream(s, f) == Result(s, [f EXCEPT !.stream = @ + 1], "ok", <<>>)

closeStream(s, f) == Result(s, f, "ok", <<>>)

\* ---------------------------------------------------------------- SinkFile
writeFile(s, f, ch, size) ==
    IF s.fd = 0 /\ ~ch.okOpen
    THEN Result(s, Fault(f), "error", <<>>)
    ELSE LET f1 == IF s.fd = 0 THEN openSync(f, "file", <<>>) ELSE f
             s1 == IF s.fd = 0 THEN [s EXCEPT !.fd = Len(f1.fds)] ELSE s
         IN  IF ~ch.okWrite
             THEN Result(s1, Fault(f1), "error", <<>>)
             ELSE Result(s1, [f1 EXCEPT !.flat = @ + size], "ok", <<>>)

\* variant: close() closes the descriptor but keeps it in the field
closeFile_KeepFd(s, f) ==
    IF s.fd = 0 THEN Result(s, f, "ok", <<>>)
    ELSE IF ~IsOpen(f, s.fd) THEN Result(s, f, "error", <<>>)
    ELSE Result(s, closeSync(f, s.fd), "ok", <<>>)

closeFile(s, f) ==
    IF s.fd = 0 THEN Result(s, f, "ok", <<>>)
    ELSE IF ~IsOpen(f, s.fd) THEN Result(s, f, "error", <<>>)
    ELSE Result([s EXCEPT !.fd = 0], closeSync(f, s.fd), "ok", <<>>)

\* ---------------------------------------------------------------- SinkPipe
\* variant: close() closes the descriptor but keeps it in the field
closePipe_KeepFd(s, f) ==
    IF s.fd = 0 THEN Result(s, f, "ok", <<>>)
    ELSE IF ~IsOpen(f, s.fd) THEN Result(s, f, "error", <<>>)
    ELSE Result(s, closeSync(f, s.fd), "ok", <<>>)

closePipe(s, f) ==
    IF s.fd = 0 THEN Result(s, f, "ok", <<>>)
    ELSE IF ~IsOpen(f, s.fd) THEN Result(s, f, "error", <<>>)
    ELSE Result([s EXCEPT !.fd = 0], closeSync(f, s.fd), "ok", <<>>)

\* what one fs.writeSync on the FIFO can do
Attempts(size) ==
    {[tag |-> "wrote", n |-> k] : k \in 1..size}
        \cup {[tag |-> t, n |-> 0] : t \in {"EAGAIN", "EPIPE", "EIO"}}

\* the bytes the first k writeSync calls of a script take
RECURSIVE Written(_, _)
Written(sc, k) == IF k = 0 THEN 0 ELSE sc[k].n + Written(sc, k - 1)

\* the outcomes of the successive writeSync calls of one write(): a call
\* is made only while bytes are left and takes no more than what is left,
\* and only the last call can raise an error other than EAGAIN; when the
\* script runs out before the line does, the pipe stays full (EAGAIN on
\* every further attempt)
Scripts(size) ==
    {sc \in UNION {[1..n -> Attempts(size)] : n \in 0..MaxAttempts} :
        \A k \in 1..Len(sc) :
            /\ k < Len(sc) => sc[k].tag \in {"wrote", "EAGAIN"}
            /\ Written(sc, k - 1) < size
            /\ Written(sc, k) <= size}

\* the scripts for every record size
ScriptTable == [size \in RecSizes |-> Scripts(size)]

Min(a, b) == IF a < b THEN a ELSE b

\* the outcome of one system call on the FIFO, as the log keeps it
Sys(f, tag, n) == [f EXCEPT !.fifo.sys = Append(@, [tag |-> tag, n |-> n])]

\* variant: every writeSync starts at the first byte of the line
RECURSIVE pipeLoop_NoOffset(_, _, _, _, _, _)
pipeLoop_NoOffset(s, f, script, k, offset, size) ==
    IF offset >= size THEN Result(s, f, "ok", <<>>)
    ELSE IF k > Len(script) THEN Result(s, f, "hang", <<>>)
    ELSE CASE script[k].tag = "wrote" ->
                LET n == Min(script[k].n, size - offset)
                IN  pipeLoop_NoOffset(s,
                             [Sys(f, "wrote", n) EXCEPT !.fifo.got =
                                 @ \o [j \in 1..n |-> j]],
                             script, k + 1, offset + n, size)
           [] script[k].tag = "EAGAIN" ->
                pipeLoop_NoOffset(s, Sys(f, "EAGAIN", 0), script, k + 1,
                                  offset, size)
           [] script[k].tag = "EPIPE" ->
                LET c == closePipe(s, [Sys(f, "EPIPE", 0)
                                          EXCEPT !.fifo.reader = FALSE])
                IN  Result(c.obj, c.fs, "dropped", <<>>)
           [] OTHER -> Result(s, Fault(Sys(f, "EIO", 0)), "error", <<>>)

\* variant: every error of writeSync other than EAGAIN closes the
\* descriptor and drops the record
RECURSIVE pipeLoop_AbsorbAll(_, _, _, _, _, _)
pipeLoop_AbsorbAll(s, f, script, k, offset, size) ==
    IF offset >= size THEN Result(s, f, "ok", <<>>)
    ELSE IF k > Len(script) THEN Result(s, f, "hang", <<>>)
    ELSE CASE script[k].tag = "wrote" ->
                LET n == Min(script[k].n, size - offset)
                IN  pipeLoop_AbsorbAll(s,
                             [Sys(f, "wrote", n) EXCEPT !.fifo.got =
                                 @ \o [j \in 1..n |-> offset + j]],
                             script, k + 1, offset + n, size)
           [] script[k].tag = "EAGAIN" ->
                pipeLoop_AbsorbAll(s, Sys(f, "EAGAIN", 0), script, k + 1,
                                   offset, size)
           [] script[k].tag = "EPIPE" ->
                LET c == closePipe(s, [Sys(f, "EPIPE", 0)
                                          EXCEPT !.fifo.reader = FALSE])
                IN  Result(c.obj, c.fs, "dropped", <<>>)
           [] OTHER ->
                LET c == closePipe(s, Fault(Sys(f, "EIO", 0)))
                IN  Result(c.obj, c.fs, "dropped", <<>>)

\* while (offset < data.length) { try writeSync ... catch ... }
RECURSIVE pipeLoop(_, _, _, _, _, _)
pipeLoop(s, f, script, k, offset, size) ==
    IF offset >= size THEN Result(s, f, "ok", <<>>)
    ELSE IF k > Len(script) THEN Result(s, f, "hang", <<>>)
    ELSE CASE script[k].tag = "wrote" ->
                LET n == Min(script[k].n, size - offset)
                IN  pipeLoop(s,
                             [Sys(f, "wrote", n) EXCEPT !.fifo.got =
                                 @ \o [j \in 1..n |-> offset + j]],
                             script, k + 1, offset + n, size)
           [] script[k].tag = "EAGAIN" ->
                pipeLoop(s, Sys(f, "EAGAIN", 0), script, k + 1, offset, size)
           [] script[k].tag = "EPIPE" ->
                LET c == closePipe(s, [Sys(f, "EPIPE", 0)
                                          EXCEPT !.fifo.reader = FALSE])
                IN  Result(c.obj, c.fs, "dropped", <<>>)
           [] OTHER -> Result(s, Fault(Sys(f, "EIO", 0)), "error", <<>>)

\* variant: ENXIO is rethrown like any other error of openSync
writePipe_EnxioRaises(s, f, ch, size) ==
    LET g == [f EXCEPT !.fifo.sys = <<>>]
    IN  IF s.fd # 0
        THEN pipeLoop(s, g, IF g.fifo.reader THEN ch.script
                            ELSE <<[tag |-> "EPIPE", n |-> 0]>>, 1, 0, size)
        ELSE IF g.fifo.node = "regular"
        THEN Result(s, g, "error", <<>>)
        ELSE LET f0 == [g EXCEPT !.fifo.node = "fifo"]
             IN  IF ~ch.okOpen
                 THEN Result(s, Fault(Sys(f0, "EACCES", 0)), "error", <<>>)
                 ELSE IF ~f0.fifo.reader
                 THEN Result(s, Sys(f0, "ENXIO", 0), "error", <<>>)
                 ELSE LET f1 == Sys(openSync(f0, "pipe", <<>>), "open", 0)
                      IN  pipeLoop([s EXCEPT !.fd = Len(f1.fds)], f1,
                                   ch.script, 1, 0, size)

\* ensureOpen, then the write loop; a null descriptor drops the record
writePipe(s, f, ch, size) ==
    LET g == [f EXCEPT !.fifo.sys = <<>>]
    IN  IF s.fd # 0
        THEN pipeLoop(s, g, IF g.fifo.reader THEN ch.script
                            ELSE <<[tag |-> "EPIPE", n |-> 0]>>, 1, 0, size)
        ELSE IF g.fifo.node = "regular"
        THEN Result(s, g, "error", <<>>)
        ELSE LET f0 == [g EXCEPT !.fifo.node = "fifo"]
             IN  IF ~ch.okOpen
                 THEN Result(s, Fault(Sys(f0, "EACCES", 0)), "error", <<>>)
                 ELSE IF ~f0.fifo.reader
                 THEN Result(s, Sys(f0, "ENXIO", 0), "dropped", <<>>)
                 ELSE LET f1 == Sys(openSync(f0, "pipe", <<>>), "open", 0)
                      IN  pipeLoop([s EXCEPT !.fd = Len(f1.fds)], f1,
                                   ch.script, 1, 0, size)

\* ---------------------------------------------------------------- SinkRotating
makeFilename(now, r) == <<now, r>>

openNewFile(s, f, ch) ==
    IF s.fd # 0 /\ ~IsOpen(f, s.fd)
    THEN Result(s, Call(f, "EBADF", s.filePath), "error", <<>>)
    ELSE LET f1 == IF s.fd # 0
                   THEN Call(closeSync(f, s.fd), "close", f.fds[s.fd].name)
                   ELSE f
             name == makeFilename(f.now, ch.r)
             s1 == [s EXCEPT !.filePath = name]
         IN  IF ~ch.okOpen
             THEN Result(s1, Fault(Call(f1, "EIO", name)), "error", <<>>)
             ELSE LET f2 == Call(openSync(f1, "rotating", name), "open", name)
                  IN  Result([s1 EXCEPT !.fd = Len(f2.fds), !.fileSize = 0],
                             f2, "ok", <<name>>)

\* variant: the loop does not stop at the current file
RECURSIVE pruneLoop_DeleteCurrent(_, _, _, _)
pruneLoop_DeleteCurrent(s, f, entries, total) ==
    IF total > s.maxBytesDir /\ entries # {}
    THEN pruneLoop_DeleteCurrent(s,
                                 Call([f EXCEPT !.dir[Oldest(entries)] = -1],
                                      "unlink", Oldest(entries)),
                                 entries \ {Oldest(entries)},
                                 total - f.dir[Oldest(entries)])
    ELSE f

\* while (total > maxBytesDir && entries.length > 0): unlink the oldest
\* entry unless it is the current file
RECURSIVE pruneLoop(_, _, _, _)
pruneLoop(s, f, entries, total) ==
    IF total > s.maxBytesDir /\ entries # {}
    THEN IF Oldest(entries) = s.filePath
         THEN f
         ELSE pruneLoop(s,
                        Call([f EXCEPT !.dir[Oldest(entries)] = -1],
                             "unlink", Oldest(entries)),
                        entries \ {Oldest(entries)},
                        total - f.dir[Oldest(entries)])
    ELSE f

\* variant: pruning runs whatever the sign of maxBytesDir
prune_Always(s, f) == pruneLoop(s, f, Files(f), TotalSize(f, Files(f)))

prune(s, f) ==
    IF s.maxBytesDir <= 0 THEN f
    ELSE pruneLoop(s, f, Files(f), TotalSize(f, Files(f)))

\* variant: the new file is opened before pruning runs
ensureOpen_PruneLast(s, f, ch) ==
    IF s.fd = 0 THEN openNewFile(s, f, ch)
    ELSE IF s.fileSize >= s.maxBytesFile
         THEN LET o == openNewFile(s, f, ch)
              IN  Result(o.obj, prune(o.obj, o.fs), o.res, o.made)
         ELSE Result(s, f, "ok", <<>>)

ensureOpen(s, f, ch) ==
    IF s.fd = 0 THEN openNewFile(s, f, ch)
    ELSE IF s.fileSize >= s.maxBytesFile
         THEN openNewFile(s, prune(s, f), ch)
         ELSE Result(s, f, "ok", <<>>)

\* fs.writeSync(fd, line): appends to the file the descriptor refers to
writeSyncRotating(f, fd, size) ==
    IF f.dir[f.fds[fd].name] < 0 THEN f
    ELSE [f EXCEPT !.dir[f.fds[fd].name] = @ + size]

\* variant: every write() prunes before it looks at the descriptor
writeRotating_PruneFirst(s, f, ch, size) ==
    LET e == ensureOpen(s, prune(s, [f EXCEPT !.calls = <<>>]), ch)
    IN  IF e.res # "ok" THEN e
        ELSE IF ~IsOpen(e.fs, e.obj.fd)
        THEN Result(e.obj, Call(e.fs, "EBADF", e.obj.filePath), "error",
                    e.made)
        ELSE IF ~ch.okWrite
        THEN Result(e.obj, Fault(Call(e.fs, "EIO", e.obj.filePath)), "error",
                    e.made)
        ELSE Result([e.obj EXCEPT !.fileSize = @ + size],
                    Call(writeSyncRotating(e.fs, e.obj.fd, size), "write",
                         e.fs.fds[e.obj.fd].name),
                    "ok", e.made)

writeRotating(s, f, ch, size) ==
    LET e == ensureOpen(s, [f EXCEPT !.calls = <<>>], ch)
    IN  IF e.res # "ok" THEN e
        ELSE IF ~IsOpen(e.fs, e.obj.fd)
        THEN Result(e.obj, Call(e.fs, "EBADF", e.obj.filePath), "error",
                    e.made)
        ELSE IF ~ch.okWrite
        THEN Result(e.obj, Fault(Call(e.fs, "EIO", e.obj.filePath)), "error",
                    e.made)
        ELSE Result([e.obj EXCEPT !.fileSize = @ + size],
                    Call(writeSyncRotating(e.fs, e.obj.fd, size), "write",
                         e.fs.fds[e.obj.fd].name),
                    "ok", e.made)

\* variant: close() keeps the current path and the byte count
closeRotating_KeepPath(s, f) ==
    LET g == [f EXCEPT !.calls = <<>>]
    IN  IF s.fd = 0 THEN Result(s, f, "ok", <<>>)
        ELSE IF ~IsOpen(g, s.fd)
        THEN Result(s, Call(g, "EBADF", s.filePath), "error", <<>>)
        ELSE Result([s EXCEPT !.fd = 0],
                    Call(closeSync(g, s.fd), "close", g.fds[s.fd].name),
                    "ok", <<>>)

closeRotating(s, f) ==
    LET g == [f EXCEPT !.calls = <<>>]
    IN  IF s.fd = 0 THEN Result(s, f, "ok", <<>>)
        ELSE IF ~IsOpen(g, s.fd)
        THEN Result(s, Call(g, "EBADF", s.filePath), "error", <<>>)
        ELSE Result([s EXCEPT !.fd = 0, !.filePath = <<>>, !.fileSize = 0],
                    Call(closeSync(g, s.fd), "close", g.fds[s.fd].name),
                    "ok", <<>>)

\* ---------------------------------------------------------------- SinkMany
\* sink.write(record) on one sink
writeOne(s, f, ch, size) ==
    CASE s.kind = "stream" -> writeStream(s, f)
      [] s.kind = "file" -> writeFile(s, f, ch, size)
      [] s.kind = "pipe" -> writePipe(s, f, ch, size)
      [] OTHER -> writeRotating(s, f, ch, size)

\* sink.close() on one sink
closeOne(s, f) ==
    CASE s.kind = "stream" -> closeStream(s, f)
      [] s.kind = "file" -> closeFile(s, f)
      [] s.kind = "pipe" -> closePipe(s, f)
      [] OTHER -> closeRotating(s, f)

\* variant: a sink that throws is skipped and the loop goes on
RECURSIVE writeMany_Isolated(_, _, _, _, _)
writeMany_Isolated(objs, f, chs, size, k) ==
    IF k > Len(objs)
    THEN [obj |-> objs, fs |-> f, results |-> <<>>, made |-> <<>>]
    ELSE LET r == writeOne(objs[k], f, chs[k], size)
             objs1 == [objs EXCEPT ![k] = r.obj]
             t == writeMany_Isolated(objs1, r.fs, chs, size, k + 1)
         IN  [obj |-> t.obj, fs |-> t.fs,
              results |-> <<r.res>> \o t.results,
              made |-> r.made \o t.made]

\* for (const sink of this.sinks) sink.write(record): a throw leaves the
\* loop; results holds the outcome for every sink reached
RECURSIVE writeMany(_, _, _, _, _)
writeMany(objs, f, chs, size, k) ==
    IF k > Len(objs)
    THEN [obj |-> objs, fs |-> f, results |-> <<>>, made |-> <<>>]
    ELSE LET r == writeOne(objs[k], f, chs[k], size)
             objs1 == [objs EXCEPT ![k] = r.obj]
         IN  IF r.res \in {"error", "hang"}
             THEN [obj |-> objs1, fs |-> r.fs, results |-> <<r.res>>,
                   made |-> r.made]
             ELSE LET t == writeMany(objs1, r.fs, chs, size, k + 1)
                  IN  [obj |-> t.obj, fs |-> t.fs,
                       results |-> <<r.res>> \o t.results,
                       made |-> r.made \o t.made]

\* for (const sink of this.sinks) sink.close()
RECURSIVE closeMany(_, _, _)
closeMany(objs, f, k) ==
    IF k > Len(objs)
    THEN [obj |-> objs, fs |-> f, results |-> <<>>, made |-> <<>>]
    ELSE LET r == closeOne(objs[k], f)
             objs1 == [objs EXCEPT ![k] = r.obj]
         IN  IF r.res = "error"
             THEN [obj |-> objs1, fs |-> r.fs, results |-> <<r.res>>,
                   made |-> <<>>]
             ELSE LET t == closeMany(objs1, r.fs, k + 1)
                  IN  [obj |-> t.obj, fs |-> t.fs,
                       results |-> <<r.res>> \o t.results, made |-> <<>>]

\* ---------------------------------------------------------------- environment
\* an I/O fault may be injected while fewer than MaxFaults have been
Flags(f) == IF f.faults < MaxFaults THEN BOOLEAN ELSE {TRUE}

NoChoice == [r |-> 0, okOpen |-> TRUE, okWrite |-> TRUE, script |-> <<>>]

ScriptFaults(script) ==
    Cardinality({k \in 1..Len(script) : script[k].tag = "EIO"})

ChoiceFaults(ch) ==
    (IF ch.okOpen THEN 0 ELSE 1) + (IF ch.okWrite THEN 0 ELSE 1)
        + ScriptFaults(ch.script)

\* the write() of a rotating sink opens a file
Opens(s) == s.fd = 0 \/ s.fileSize >= s.maxBytesFile

\* what the environment decides during one write() of sink s: the random
\* digits of a new file name, whether openSync and writeSync succeed, and
\* what the FIFO does
ChoicesFor(s, f, size) ==
    CASE s.kind = "stream" -> {NoChoice}
      [] s.kind = "file" ->
            {[NoChoice EXCEPT !.okOpen = o, !.okWrite = w] :
                 o \in IF s.fd = 0 THEN Flags(f) ELSE {TRUE}, w \in Flags(f)}
      [] s.kind = "pipe" ->
            {[NoChoice EXCEPT !.okOpen = o, !.script = sc] :
                 o \in IF s.fd = 0 THEN Flags(f) ELSE {TRUE},
                 sc \in IF f.fifo.reader THEN ScriptTable[size] ELSE {<<>>}}
      [] OTHER ->
            {[NoChoice EXCEPT !.r = r, !.okOpen = o, !.okWrite = w] :
                 r \in IF Opens(s) THEN RandDigits ELSE {0},
                 o \in IF Opens(s) THEN Flags(f) ELSE {TRUE},
                 w \in Flags(f)}

\* one choice per sink of the layout, at most MaxFaults faults in all
ChoiceSets(objs, f, size) ==
    IF Len(objs) = 1
    THEN {<<c>> : c \in {x \in ChoicesFor(objs[1], f, size) :
                            f.faults + ChoiceFaults(x) <= MaxFaults}}
    ELSE {p \in ChoicesFor(objs[1], f, size)
                    \X ChoicesFor(objs[2], f, size) :
             f.faults + ChoiceFaults(p[1]) + ChoiceFaults(p[2]) <= MaxFaults}

HasKind(kind) == \E k \in 1..Len(obj) : obj[k].kind = kind

\* the call returned normally for every sink of the layout
Returned(results) ==
    /\ Len(results) = Len(obj)
    /\ \A k \in 1..Len(results) : results[k] \in {"ok", "dropped"}

\* operations and clock ticks so far stay below MaxSinkOps
CanCall ==
    /\ obj # <<>>
    /\ ~trace.hung
    /\ trace.n + fs.now < MaxSinkOps

\* the program calls write(record) on the sink under test
SinkWriteCall ==
    /\ CanCall
    /\ \E chs \in ChoiceSets(obj, fs, trace.recSize) :
          LET r == writeMany(obj, fs, chs, trace.recSize, 1)
          IN  /\ obj' = r.obj
              /\ fs' = r.fs
              /\ trace' = [trace EXCEPT
                              !.n = @ + 1, !.op = "write", !.prev = trace.op,
                              !.results = r.results,
                              !.hung = \E k \in 1..Len(r.results) :
                                           r.results[k] = "hang"]
    /\ UNCHANGED <<wrapVars, shuntVars, capture>>

\* the program calls close() on the sink under test
SinkCloseCall ==
    /\ CanCall
    /\ LET r == closeMany(obj, fs, 1)
       IN  /\ obj' = r.obj
           /\ fs' = r.fs
           /\ trace' = [trace EXCEPT
                           !.n = @ + 1, !.op = "close", !.prev = trace.op,
                           !.results = r.results, !.closed = TRUE]
    /\ UNCHANGED <<wrapVars, shuntVars, capture>>

\* the wall clock reaches the next millisecond (read by makeFilename only)
Tick ==
    /\ HasKind("rotating")
    /\ CanCall
    /\ fs.now < MaxClock
    /\ fs' = [fs EXCEPT !.now = @ + 1]
    /\ UNCHANGED <<obj, trace, wrapVars, shuntVars, capture>>

\* a reader opens the FIFO
ReaderAttach ==
    /\ HasKind("pipe")
    /\ ~trace.hung
    /\ fs.fifo.node = "fifo"
    /\ ~fs.fifo.reader
    /\ fs' = [fs EXCEPT !.fifo.reader = TRUE]
    /\ UNCHANGED <<obj, trace, wrapVars, shuntVars, capture>>

\* the reader closes its end of the FIFO
ReaderDetach ==
    /\ HasKind("pipe")
    /\ ~trace.hung
    /\ fs.fifo.reader
    /\ fs' = [fs EXCEPT !.fifo.reader = FALSE]
    /\ UNCHANGED <<obj, trace, wrapVars, shuntVars, capture>>

\* a sink is constructed; limits matter for the rotating sink, the state
\* of the FIFO path for the pipe sink
InitSinks ==
    /\ IdleWrap
    /\ IdleShunt
    /\ IdleCapture
    /\ \E layout \in Layouts, size \in RecSizes :
       \E m \in IF \E k \in 1..Len(layout) : layout[k] = "rotating"
                THEN FileLimits ELSE {0},
          d \in IF \E k \in 1..Len(layout) : layout[k] = "rotating"
                THEN DirLimits ELSE {0},
          node \in IF \E k \in 1..Len(layout) : layout[k] = "pipe"
                   THEN {"absent", "fifo", "regular"} ELSE {"absent"} :
       \E reader \in IF node = "fifo" THEN BOOLEAN ELSE {FALSE} :
          /\ obj = [k \in 1..Len(layout) |-> NewSinkObj(layout[k], m, d)]
          /\ fs = InitFs(node, reader)
          /\ trace = InitTrace(size)

NextSinks ==
    \/ SinkWriteCall
    \/ SinkCloseCall
    \/ Tick
    \/ ReaderAttach
    \/ ReaderDetach

SpecSinks == InitSinks /\ [][NextSinks]_vars

\* ---------------------------------------------------------------- request
\* typeof value
typeOf(v) ==
    IF v.kind \in {"null", "array", "object"} THEN "object" ELSE v.kind

\* Array.isArray(value)
isArray(v) == v.kind = "array"

\* the argument itself
Verbatim(v) == [tag |-> "verbatim", val |-> v, args |-> <<>>]

\* { args }
Wrapped(args) == [tag |-> "wrapped", val |-> JsNull, args |-> args]

\* variant: null passes as the single options object
requestOfMethod_NullPasses(args) ==
    IF Len(args) = 1 /\ typeOf(args[1]) = "object"
    THEN Verbatim(args[1])
    ELSE Wrapped(args)

\* createWrapper: most SDK methods take a single options object
requestOfMethod(args) ==
    IF Len(args) = 1 /\ typeOf(args[1]) = "object" /\ args[1].kind # "null"
    THEN Verbatim(args[1])
    ELSE Wrapped(args)

\* standalone wrapper: the arguments are model, context
requestOfFunction(args) ==
    IF /\ Len(args) >= 2
       /\ args[2].kind # "null"
       /\ typeOf(args[2]) = "object"
       /\ ~isArray(args[2])
    THEN Verbatim(args[2])
    ELSE Wrapped(args)

\* ---------------------------------------------------------------- record
\* what the original can hand back: a value of any kind, or an object
\* whose toJSON method returns nothing or an object
Responses ==
    {Js(k, 0) : k \in JsKinds}
        \cup {[Js("object", 0) EXCEPT !.toJSON = t] :
                 t \in {"undefined", "object"}}

\* how the wrapped call ends; a drained sequence is recorded with the
\* array of its chunks
Outcomes ==
    {[tag |-> t, val |-> v, err |-> NoError] :
        t \in {"returns", "resolves"}, v \in Responses}
      \cup {[tag |-> t, val |-> JsNull, err |-> e] :
               t \in {"throws", "rejects"}, e \in Errors}
      \cup {[tag |-> "drained", val |-> Js("array", 0), err |-> NoError]}

\* serializeResponse(obj)
serializeResponse(v) ==
    IF v.kind \in {"null", "undefined"} THEN v
    ELSE IF typeOf(v) # "object" THEN v
    ELSE IF v.toJSON # "none" THEN Js(v.toJSON, v.id)
    ELSE v

\* ShuntlyRecord.build with error ?? null
buildRecord(clientName, method, request, response, err) ==
    [client |-> clientName, method |-> method, request |-> request,
     response |-> response, error |-> err]

\* toJSON(): the ten properties in the order of the object literal, each
\* with the kind of its value
toJSON(r) ==
    << [key |-> "timestamp", kind |-> "string"],
       [key |-> "hostname", kind |-> "string"],
       [key |-> "user", kind |-> "string"],
       [key |-> "pid", kind |-> "number"],
       [key |-> "client", kind |-> "string"],
       [key |-> "method", kind |-> "string"],
       [key |-> "request",
        kind |-> IF r.request.tag = "verbatim" THEN r.request.val.kind
                 ELSE "object"],
       [key |-> "response", kind |-> serializeResponse(r.response).kind],
       [key |-> "durationMs", kind |-> "number"],
       [key |-> "error",
        kind |-> IF r.error = NullErr THEN "null" ELSE "string"] >>

\* JSON.stringify(object) without an indent: a property whose value is
\* undefined is left out, and the text has no line break
JSONstringify(props) ==
    [keys |-> [k \in 1..Len(SelectSeq(props, LAMBDA q : q.kind # "undefined"))
                 |-> SelectSeq(props, LAMBDA q : q.kind # "undefined")[k].key],
     breaks |-> 0]

toJSONString(r) == JSONstringify(toJSON(r))

\* the wrapper is called: the request is derived from the arguments
Invoke ==
    /\ capture.pc = "idle"
    /\ capture' = [capture EXCEPT
                     !.pc = "called",
                     !.request = IF capture.wrapper = "method"
                                 THEN requestOfMethod(capture.args)
                                 ELSE requestOfFunction(capture.args)]
    /\ UNCHANGED <<wrapVars, shuntVars, sinkVars>>

\* the original ends and recordAndWrite builds the record
Settle ==
    /\ capture.pc = "called"
    /\ \E o \in Outcomes :
          capture' = [capture EXCEPT
                        !.pc = "built",
                        !.outcome = o.tag,
                        !.record =
                            buildRecord(getClientName(capture.wrapper),
                                        MethodLabel(capture.wrapper),
                                        capture.request,
                                        IF o.tag \in {"throws", "rejects"}
                                        THEN JsNull ELSE o.val,
                                        IF o.tag \in {"throws", "rejects"}
                                        THEN ErrString(o.err) ELSE NullErr)]
    /\ UNCHANGED <<wrapVars, shuntVars, sinkVars>>

\* a stream, file or rotating sink writes record.toJSONString() + "\n"
Emit ==
    /\ capture.pc = "built"
    /\ \E sk \in {"stream", "file", "rotating"} :
          LET json == toJSONString(capture.record)
          IN  capture' = [capture EXCEPT
                            !.pc = "written",
                            !.line = [sink |-> sk, keys |-> json.keys,
                                      breaks |-> json.breaks + 1]]
    /\ UNCHANGED <<wrapVars, shuntVars, sinkVars>>

InitRecord ==
    /\ IdleWrap
    /\ IdleShunt
    /\ IdleSinks
    /\ \E wk \in WrapperKinds, args \in ArgLists :
          capture = InitCapture(wk, args)

NextRecord ==
    \/ Invoke
    \/ Settle
    \/ Emit

SpecRecord == InitRecord /\ [][NextRecord]_vars

\* ---------------------------------------------------------------- claims
LastRecord(i) == RecordsOf(i)[Len(RecordsOf(i))]

\* the consumer's calls on the instrumented iterator were k successful
\* next() steps followed by one call with outcome tag
Steps(i, tag) ==
    /\ con[i].hist # <<>>
    /\ con[i].hist[Len(con[i].hist)] = tag
    /\ \A k \in 1..(Len(con[i].hist) - 1) : con[i].hist[k] = "item"

\* every sink.write made for invocation i returned normally, so each
\* record handed to the sink was written
NoFault(i) == sink.faults[i] = 0

\* C1: for one tapped sequence the completion and the error callback fire
\* at most once in total, whatever next(), return() and throw() calls the
\* consumer makes, so at most one record is written for the invocation
\* (stated for a sink whose write never faults).
C1_CallbackAtMostOnce ==
    \A i \in Invs :
        NoFault(i) =>
            /\ str[i].nComplete + str[i].nError <= 1
            /\ Len(RecordsOf(i)) <= 1

\* C2: an invocation whose result is a tapped sequence eventually has a
\* record written for it, even if the consumer abandons the sequence
\* before exhaustion.
C2_AbandonedEventuallyRecorded ==
    \A i \in Invs :
        [](con[i].abandoned => <>(Len(RecordsOf(i)) >= 1))

\* C3: once a wrapped call that returns a plain value, throws, or returns
\* a promise settling to a non-sequence value or rejecting has returned,
\* thrown or settled, exactly one record has been written for it (the
\* sink's write not faulting).
C3_ExactlyOneRecord ==
    \A i \in Invs :
        (call[i].pc \in {"returned", "thrown", "resolved", "rejected"}
            /\ NoFault(i))
        => /\ Len(RecordsOf(i)) = 1
           /\ sink.attempts[i] = 1

C3_Witness ==
    \E i \in Invs :
        /\ call[i].pc = "resolved"
        /\ wrapper = "function"
        /\ NoFault(i)
        /\ Len(RecordsOf(i)) = 1

\* C4: no record is written, and no write attempted, while the promise
\* returned by the wrapper is pending or while a tapped sequence has not
\* reported done, failed a step or been ended with return() or throw().
C4_NoRecordBeforeTerminal ==
    \A i \in Invs :
        (call[i].pc \in {"idle", "pending"}
            \/ (call[i].pc = "streaming" /\ ~Terminated(i)))
        => sink.attempts[i] = 0

C4_Witness ==
    \E i \in Invs :
        /\ call[i].pc = "streaming"
        /\ call[i].orig = "promise"
        /\ Len(con[i].got) = MaxLen
        /\ ~Terminated(i)
        /\ RecordsOf(i) = <<>>

C8_EarlyReturn ==
    \A i \in Invs :
        (Steps(i, "return") /\ NoFault(i))
        => /\ str[i].nComplete = 1
           /\ str[i].nError = 0
           /\ Len(RecordsOf(i)) = 1
           /\ RecordsOf(i)[1].response = ListResp(con[i].got)
           /\ Len(con[i].got) = Len(con[i].hist) - 1
           /\ RecordsOf(i)[1].error = NullErr

C8_Witness ==
    \E i \in Invs :
        /\ Steps(i, "return")
        /\ NoFault(i)
        /\ Len(con[i].got) >= 1
        /\ str[i].kind = "generator"
        /\ str[i].itState = "closed"
        /\ RecordsOf(i)[1].response.list = con[i].got

\* C9: only the first call of the iteration entry point returns an
\* instrumented iterator; later calls return the plain original iterator,
\* and a step of a plain iterator appends nothing to the buffer, fires no
\* callback and writes no record.
C9_InstrumentedOnce ==
    \A i \in Invs : \A k \in 1..Len(str[i].iters) :
        (str[i].iters[k] = "instrumented") <=> (k = 1)

C9_PlainStepSilent ==
    \A i \in Invs :
        con'[i].plainCalls # con[i].plainCalls
        => /\ str'[i].chunks = str[i].chunks
           /\ str'[i].nComplete = str[i].nComplete
           /\ str'[i].nError = str[i].nError
           /\ sink' = sink

C9_SecondIterationPlain == []C9_InstrumentedOnce /\ [][C9_PlainStepSilent]_vars

C9_Witness ==
    \E i \in Invs :
        /\ str[i].iters = <<"instrumented", "plain">>
        /\ con[i].plainGot # <<>>
        /\ Len(RecordsOf(i)) = 1

\* C10: tapping preserves the identity of the sequence and its members
\* other than the iteration entry point: the caller receives the object
\* the original callable produced, and result() stays callable with its
\* original binding, before and after the sequence is consumed.
C10_IdentityPreserved ==
    \A i \in Invs :
        call[i].pc = "streaming"
        => /\ str[i].id = str[i].origId
           /\ call[i].seen = ObsSeq(str[i].origId)
           /\ str[i].result = "original"
           /\ con[i].resultSeen \in {0, str[i].origId}

C10_Witness ==
    \E i \in Invs :
        /\ call[i].pc = "streaming"
        /\ Terminated(i)
        /\ con[i].resultSeen = str[i].origId
        /\ con[i].resultSeen # 0

\* C11: the wrapper never alters what the original caller observes: a
\* plain return value is returned unchanged, the promise returned by the
\* wrapper resolves to the identical value or rejects with the identical
\* error, and a synchronous throw is rethrown as the same error.
C11_CallerObservesOriginal ==
    \A i \in Invs :
        /\ (call[i].orig = "value" /\ call[i].pc # "idle")
           => /\ call[i].pc = "returned"
              /\ call[i].seen = ObsValue(call[i].origVal)
        /\ (call[i].orig = "throw" /\ call[i].pc # "idle")
           => /\ call[i].pc = "thrown"
              /\ call[i].seen = ObsError(call[i].origErr)
        /\ (call[i].orig = "promise"
               /\ call[i].pc \in {"resolved", "rejected"})
           => IF call[i].origErr = NoError
              THEN /\ call[i].pc = "resolved"
                   /\ call[i].seen = ObsValue(call[i].origVal)
              ELSE /\ call[i].pc = "rejected"
                   /\ call[i].seen = ObsError(call[i].origErr)

\* C12: shunt on an object whose constructor name is not in the registry,
\* called without a method list, raises the configuration error
\* synchronously: no slot of the object has been replaced, the call of
\* shunt itself invokes no method of the object, and the sink never
\* receives a record.
C12_UnknownClientState ==
    (~HasRegistry(client.type) /\ ~patched.given /\ patched.outcome # "none")
    => /\ patched.outcome = "thrown"
       /\ patched.error = UnknownClientError(client.type)
       /\ \A p \in Paths : client.slots[p].layers = 0
       /\ patched.records = <<>>

C12_ShuntInvokesNothing ==
    (patched.outcome = "none" /\ patched'.outcome # "none")
    => /\ patched'.invoked = patched.invoked
       /\ patched'.records = patched.records

C12_UnknownClientRaises ==
    []C12_UnknownClientState /\ [][C12_ShuntInvokesNothing]_vars

C12_Witness ==
    /\ client.type = "Custom"
    /\ ~patched.given
    /\ patched.outcome = "thrown"
    /\ patched.error =
         "Unknown client \"Custom\". Pass methods option to specify which methods to patch."
    /\ patched.invoked["run"] = 1
    /\ patched.records = <<>>

\* ---------------------------------------------------------------- sink claims
\* the sink under test is a rotating sink
IsRotating == Len(obj) = 1 /\ obj[1].kind = "rotating"

Rot == obj[1]

\* the names of the files the sink opened, in the order it opened them
Created == [k \in 1..Len(fs.fds) |-> fs.fds[k].name]

DirTotal == TotalSize(fs, Files(fs))

LargestFile ==
    IF Files(fs) = {} THEN 0
    ELSE fs.dir[CHOOSE n \in Files(fs) : \A m \in Files(fs) : fs.dir[m] <= fs.dir[n]]

\* no openSync or writeSync has raised an I/O error
NoIoFault == fs.faults = 0

\* the call returned without an error for every sink of the layout
AllOk(results) ==
    /\ Len(results) = Len(obj)
    /\ \A k \in 1..Len(results) : results[k] = "ok"

CeilDiv(a, b) == (a + b - 1) \div b

\* C13: for every sink (stream, file, pipe, rotating, fan-out) and every
\* prior sequence of writes, a close() called directly after a close()
\* that returned raises no error and changes neither the sink's fields
\* nor anything in the file system.
C13_SecondClose ==
    (trace.op = "close" /\ AllOk(trace.results)
        /\ trace'.op = "close" /\ trace'.n = trace.n + 1)
    => /\ AllOk(trace'.results)
       /\ obj' = obj
       /\ fs' = fs

C14_RotationFileCount ==
    (IsRotating /\ Rot.maxBytesDir <= 0 /\ NoIoFault
        /\ DirTotal > Rot.maxBytesFile)
    => Cardinality(Files(fs)) >= CeilDiv(DirTotal, Rot.maxBytesFile)

\* C15: with pruning enabled (maxBytesDir = D > 0), after any number of
\* consecutive writes the total size of the files in the directory is at
\* most D plus the size of one file (the largest one), for every
\* maxBytesFile and record size.
C15_DirectoryBound ==
    (IsRotating /\ Rot.maxBytesDir > 0 /\ NoIoFault /\ ~trace.closed)
    => DirTotal <= Rot.maxBytesDir + LargestFile

\* C16: with pruning enabled, in every state reachable by write() and
\* close() calls the total size of the files other than the current one
\* does not exceed maxBytesDir.
C16_OthersWithinCeiling ==
    (IsRotating /\ Rot.maxBytesDir > 0 /\ NoIoFault)
    => TotalSize(fs, Files(fs) \ {Rot.filePath}) <= Rot.maxBytesDir

\* C17: with maxBytesDir <= 0 the rotating sink never deletes a file: no
\* step removes or shrinks a file, and every write() that returns makes
\* the total size of the directory strictly larger.
C17_NoDeletion ==
    (IsRotating /\ Rot.maxBytesDir <= 0)
    => /\ \A n \in Names : fs'.dir[n] >= fs.dir[n]
       /\ (trace'.n # trace.n /\ trace'.op = "write"
              /\ Returned(trace'.results))
          => TotalSize(fs', Files(fs')) > DirTotal

C17_PruningDisabled == [][C17_NoDeletion]_vars

C17_Witness ==
    /\ IsRotating
    /\ Rot.maxBytesDir <= 0
    /\ trace.op = "write"
    /\ Cardinality(Files(fs)) >= 2
    /\ DirTotal > 2 * Rot.maxBytesFile

\* C18: pruning never deletes the file that is open for append: whenever
\* the rotating sink has a file open, the path recorded as current exists
\* in the directory, and no step removes the file that was current when
\* the step began.
C18_CurrentExists ==
    (IsRotating /\ Rot.fd # 0 /\ IsOpen(fs, Rot.fd))
    => /\ Rot.filePath # <<>>
       /\ fs.dir[Rot.filePath] >= 0

C18_CurrentSurvives ==
    (IsRotating /\ Rot.fd # 0 /\ IsOpen(fs, Rot.fd))
    => fs'.dir[Rot.filePath] >= 0

C18_NeverDeletesCurrent == []C18_CurrentExists /\ [][C18_CurrentSurvives]_vars

C18_Witness ==
    /\ IsRotating
    /\ Rot.maxBytesDir > 0
    /\ Rot.fd # 0
    /\ IsOpen(fs, Rot.fd)
    /\ fs.dir[Rot.filePath] > 0
    /\ \E k \in 1..Len(fs.fds) : fs.dir[Created[k]] < 0

\* C19: the file names the rotating sink generates sort in creation
\* order: every newly opened file has a name strictly greater than the
\* name of every file the sink opened earlier, also within one
\* millisecond.
C19_NamesIncrease ==
    IsRotating
    => \A i \in 1..Len(fs.fds) : \A j \in 1..Len(fs.fds) :
           i < j => NameLess(Created[i], Created[j])

\* C20 as stated: once close() has been called on the rotating sink, no
\* later operation opens a file or changes the directory.
C20_FrozenAfterClose ==
    (IsRotating /\ trace.closed)
    => /\ fs'.dir = fs.dir
       /\ Len(fs'.fds) = Len(fs.fds)

C20_ClosedIsTerminal == [][C20_FrozenAfterClose]_vars

\* C20 as the code has it: close() takes the rotating sink back to
\* NO_FILE.  After a close() that returned the sink holds no descriptor
\* and a zero byte count and none of its descriptors is open; close()
\* itself never opens a file nor changes the directory; the next write()
\* that returns opens one new file, as the first write does.
C20_CloseResets ==
    (IsRotating /\ trace.op = "close" /\ AllOk(trace.results))
    => /\ Rot.fd = 0
       /\ Rot.fileSize = 0
       /\ \A k \in 1..Len(fs.fds) : ~fs.fds[k].open

C20_CloseStep ==
    (IsRotating /\ trace'.n # trace.n /\ trace'.op = "close")
    => /\ fs'.dir = fs.dir
       /\ Len(fs'.fds) = Len(fs.fds)

C20_ReopenStep ==
    (IsRotating /\ trace.op = "close" /\ AllOk(trace.results)
        /\ trace'.n # trace.n /\ trace'.op = "write"
        /\ Returned(trace'.results))
    => /\ Len(fs'.fds) = Len(fs.fds) + 1
       /\ obj'[1].fd = Len(fs'.fds)
       /\ obj'[1].filePath = <<fs.now, obj'[1].filePath[2]>>
       /\ obj'[1].fileSize = trace.recSize

C20_CloseReturnsToNoFile ==
    []C20_CloseResets /\ [][C20_CloseStep /\ C20_ReopenStep]_vars

C20_Witness ==
    /\ IsRotating
    /\ trace.prev = "close"
    /\ trace.op = "write"
    /\ Returned(trace.results)
    /\ Len(fs.fds) >= 2
    /\ IsOpen(fs, Rot.fd)

\* ---------------------------------------------------------------- pipe claims
\* the sink under test is a pipe sink, alone or first in a fan-out
IsPipe == obj # <<>> /\ obj[1].kind = "pipe"

Pipe == obj[1]

\* this step is a call of write() on the sink under test
WriteStep == trace'.n = trace.n + 1 /\ trace'.op = "write"

\* the system calls of the last write() began with an attempt to open the FIFO
OpenAttempted(f) ==
    /\ f.fifo.sys # <<>>
    /\ f.fifo.sys[1].tag \in {"open", "ENXIO", "EACCES"}

LastSys(f) == f.fifo.sys[Len(f.fifo.sys)]

\* the bytes 1..size of a record line, in order
Line(size) == [j \in 1..size |-> j]

\* C21: when no reader is attached, SinkPipe.write opens the FIFO, gets
\* ENXIO and drops the record: the call returns without an error, no
\* byte reaches the FIFO, no descriptor is opened or held, and the next
\* write() begins with another attempt to open the FIFO.
C21_Dropped ==
    (IsPipe /\ trace.op = "write"
        /\ fs.fifo.sys = <<[tag |-> "ENXIO", n |-> 0]>>)
    => /\ trace.results[1] = "dropped"
       /\ Returned(trace.results)
       /\ Pipe.fd = 0
       /\ \A k \in 1..Len(fs.fds) : ~fs.fds[k].open

C21_DropStep ==
    (IsPipe /\ WriteStep /\ Pipe.fd = 0 /\ ~fs.fifo.reader
        /\ fs.fifo.node # "regular" /\ fs'.faults = fs.faults)
    => /\ fs'.fifo.sys = <<[tag |-> "ENXIO", n |-> 0]>>
       /\ trace'.results[1] = "dropped"
       /\ Returned(trace'.results)
       /\ obj'[1].fd = 0
       /\ fs'.fds = fs.fds
       /\ fs'.fifo.got = fs.fifo.got

C21_RetryStep ==
    (IsPipe /\ WriteStep /\ trace.op = "write"
        /\ fs.fifo.sys = <<[tag |-> "ENXIO", n |-> 0]>>)
    => OpenAttempted(fs')

C21_NoReaderDrops ==
    []C21_Dropped /\ [][C21_DropStep /\ C21_RetryStep]_vars

C21_Witness ==
    /\ Len(obj) = 1
    /\ IsPipe
    /\ trace.n = 2
    /\ trace.prev = "write"
    /\ trace.op = "write"
    /\ trace.results = <<"dropped">>
    /\ fs.fifo.sys = <<[tag |-> "ENXIO", n |-> 0]>>
    /\ fs.fifo.node = "fifo"
    /\ fs.fds = <<>>
    /\ fs.faults = 0

\* C22: when the reader disconnects during a write (EPIPE), SinkPipe
\* closes its descriptor and drops the record without raising; the next
\* write() begins with an attempt to open the FIFO again, and once a
\* reader is attached again a write() that returns with the descriptor
\* open has delivered its whole record line.
C22_Disconnected ==
    (IsPipe /\ trace.op = "write" /\ fs.fifo.sys # <<>>
        /\ LastSys(fs).tag = "EPIPE")
    => /\ trace.results[1] = "dropped"
       /\ Returned(trace.results)
       /\ Pipe.fd = 0
       /\ \A k \in 1..Len(fs.fds) : ~fs.fds[k].open

C22_EpipeStep ==
    (IsPipe /\ WriteStep /\ Pipe.fd # 0 /\ ~fs.fifo.reader)
    => /\ fs'.fifo.sys = <<[tag |-> "EPIPE", n |-> 0]>>
       /\ fs'.fifo.got = fs.fifo.got
       /\ ~IsOpen(fs', Pipe.fd)

C22_ReopenStep ==
    (IsPipe /\ WriteStep /\ trace.op = "write" /\ fs.fifo.sys # <<>>
        /\ LastSys(fs).tag = "EPIPE")
    => /\ OpenAttempted(fs')
       /\ (fs.fifo.reader /\ trace'.results[1] = "ok")
          => /\ fs'.fifo.got = fs.fifo.got \o Line(trace.recSize)
             /\ Len(fs'.fds) = Len(fs.fds) + 1
             /\ obj'[1].fd = Len(fs'.fds)
             /\ IsOpen(fs', obj'[1].fd)

C22_DisconnectRecovers ==
    []C22_Disconnected /\ [][C22_EpipeStep /\ C22_ReopenStep]_vars

C22_Witness ==
    /\ Len(obj) = 1
    /\ IsPipe
    /\ ~trace.closed
    /\ trace.op = "write"
    /\ trace.results = <<"ok">>
    /\ Len(fs.fds) = 2
    /\ ~fs.fds[1].open
    /\ Pipe.fd = 2
    /\ IsOpen(fs, 2)
    /\ fs.fifo.sys[1].tag = "open"
    /\ fs.fifo.got # <<>>
    /\ fs.fifo.got[Len(fs.fifo.got)] = trace.recSize

\* the bytes the writeSync calls of the last write() reported as written
RECURSIVE Reported(_, _)
Reported(sys, k) ==
    IF k > Len(sys) THEN 0 ELSE sys[k].n + Reported(sys, k + 1)

\* C23: whenever SinkPipe.write returns normally with the descriptor
\* still open, the FIFO has taken every byte of the record line exactly
\* once and in order, whatever byte counts the partial writes reported
\* and however often writeSync raised EAGAIN in between.
C23_WholeLine ==
    (IsPipe /\ WriteStep /\ trace'.results[1] = "ok")
    => /\ fs'.fifo.got = fs.fifo.got \o Line(trace.recSize)
       /\ Reported(fs'.fifo.sys, 1) = trace.recSize
       /\ obj'[1].fd # 0
       /\ IsOpen(fs', obj'[1].fd)

C23_PartialWritesRetried == [][C23_WholeLine]_vars

C23_Witness ==
    /\ IsPipe
    /\ trace.op = "write"
    /\ trace.results[1] = "ok"
    /\ trace.recSize = 2
    /\ \E k \in 1..(Len(fs.fifo.sys) - 1) :
          /\ fs.fifo.sys[k] = [tag |-> "wrote", n |-> 1]
          /\ fs.fifo.sys[k + 1] = [tag |-> "wrote", n |-> 1]
    /\ Len(fs.fifo.got) >= 2
    /\ fs.fifo.got[Len(fs.fifo.got) - 1] = 1
    /\ fs.fifo.got[Len(fs.fifo.got)] = 2

\* C24: every call of SinkPipe.write terminates, also when a reader is
\* attached but never drains the FIFO, so that writeSync raises EAGAIN on
\* every attempt.
C24_WriteTerminates == IsPipe => ~trace.hung

\* ---------------------------------------------------------------- fan-out claims
\* the record line has reached what a sink of this kind writes to (f
\* before the call, g after it)
Received(kind, f, g, res, size) ==
    CASE kind = "stream" -> g.stream = f.stream + 1
      [] kind = "file" -> g.flat = (IF f.flat < 0 THEN 0 ELSE f.flat) + size
      [] kind = "pipe" ->
            /\ g.fifo.sys # <<>>
            /\ res = "ok" => g.fifo.got = f.fifo.got \o Line(size)
      [] OTHER -> g.dir # f.dir

\* nothing a sink of this kind writes to has changed
Untouched(kind, f, g) ==
    CASE kind = "stream" -> g.stream = f.stream
      [] kind = "file" -> g.flat = f.flat
      [] kind = "pipe" -> g.fifo = f.fifo
      [] OTHER -> g.dir = f.dir

\* C25: SinkMany.write hands the record to its sinks in list order and
\* stops at the first sink whose write faults: every sink before that one
\* has received the record, the sinks after it are not called (their
\* fields and what they write to are unchanged), and the call as a whole
\* raises; without a fault every sink has received the record.
C25_FanOutStep ==
    (Len(obj) = 2 /\ WriteStep)
    => LET res == trace'.results
           k == Len(res)
       IN  /\ k \in 1..2
           /\ \A j \in 1..(k - 1) :
                 /\ res[j] \in {"ok", "dropped"}
                 /\ Received(obj[j].kind, fs, fs', res[j], trace.recSize)
           /\ \A j \in (k + 1)..2 :
                 /\ obj'[j] = obj[j]
                 /\ Untouched(obj[j].kind, fs, fs')
           /\ k < 2 => res[k] \in {"error", "hang"}
           /\ res[k] = "error" => ~Returned(res)
           /\ res[k] \in {"ok", "dropped"}
                 => /\ Returned(res)
                    /\ Received(obj[k].kind, fs, fs', res[k], trace.recSize)

C25_StopsAtFirstFault == [][C25_FanOutStep]_vars

C25_Witness ==
    /\ Len(obj) = 2
    /\ obj[1].kind = "file"
    /\ obj[2].kind = "stream"
    /\ trace.n = 2
    /\ trace.op = "write"
    /\ trace.results = <<"error">>
    /\ fs.flat = trace.recSize
    /\ fs.stream = 1

\* ---------------------------------------------------------------- record claims
TenFields ==
    <<"timestamp", "hostname", "user", "pid", "client", "method",
      "request", "response", "durationMs", "error">>

\* C26: every record a stream, file or rotating sink emits is exactly one
\* line of JSON that has all ten fields timestamp, hostname, user, pid,
\* client, method, request, response, durationMs and error, whatever the
\* outcome of the wrapped call, a call that returns no value included.
C26_TenFieldLine ==
    capture.pc = "written"
    => /\ capture.line.keys = TenFields
       /\ capture.line.breaks = 1

\* C27: the request of the record follows the derivation rule for every
\* argument list.  Object-method calls: the sole argument itself when
\* exactly one argument was passed and it is a non-null object (an array
\* is one), otherwise { args: [all arguments] }.  Standalone-function
\* calls: the second argument when at least two were passed and the
\* second is a non-null, non-array object, otherwise { args: [...] }.
C27_RequestRule ==
    capture.pc # "idle"
    => LET args == capture.args
           n == Len(args)
       IN  /\ (capture.wrapper = "method" /\ n = 1
                  /\ args[1].kind \in {"object", "array"})
              => capture.request = [NoRequest EXCEPT !.tag = "verbatim",
                                                     !.val = args[1]]
           /\ (capture.wrapper = "method"
                  /\ ~(n = 1 /\ args[1].kind \in {"object", "array"}))
              => capture.request = [NoRequest EXCEPT !.tag = "wrapped",
                                                     !.args = args]
           /\ (capture.wrapper = "function" /\ n >= 2
                  /\ args[2].kind = "object")
              => capture.request = [NoRequest EXCEPT !.tag = "verbatim",
                                                     !.val = args[2]]
           /\ (capture.wrapper = "function"
                  /\ ~(n >= 2 /\ args[2].kind = "object"))
              => capture.request = [NoRequest EXCEPT !.tag = "wrapped",
                                                     !.args = args]
           /\ capture.pc \in {"built", "written"}
              => capture.record.request = capture.request

C27_Witness ==
    /\ capture.pc = "written"
    /\ capture.wrapper = "function"
    /\ Len(capture.args) = 2
    /\ capture.args[2].kind = "array"
    /\ capture.request.tag = "wrapped"
    /\ capture.request.args = capture.args
    /\ capture.record.request = capture.request

\* ---------------------------------------------------------------- rotation claims
Tags(calls) == [k \in 1..Len(calls) |-> calls[k].tag]

OpenCount(f) == Cardinality({k \in 1..Len(f.fds) : f.fds[k].open})

\* the size of a file after size more bytes were appended to it
Appended(f, name, size) == (IF f.dir[name] < 0 THEN 0 ELSE f.dir[name]) + size

\* the sink holds a descriptor that is open
FileOpen == Rot.fd # 0 /\ IsOpen(fs, Rot.fd)

\* C28: on every write() that returns the rotating sink follows its
\* state machine.  From NO_FILE it opens exactly one file, named by the
\* clock, and appends the record to it.  With a file open and a running
\* byte count below maxBytesFile it appends to the same file and opens
\* nothing.  With a running byte count >= maxBytesFile it prunes first,
\* then closes the old descriptor, then opens the new file, and the
\* record goes to the new file.  At most one descriptor is open in every
\* reachable state.
C28_OneDescriptor == IsRotating => OpenCount(fs) <= 1

C28_FromNoFile ==
    (IsRotating /\ WriteStep /\ Rot.fd = 0 /\ AllOk(trace'.results))
    => /\ Tags(fs'.calls) = <<"open", "write">>
       /\ fs'.calls[1].name[1] = fs.now
       /\ fs'.calls[2].name = fs'.calls[1].name
       /\ Len(fs'.fds) = Len(fs.fds) + 1
       /\ obj'[1].fd = Len(fs'.fds)
       /\ IsOpen(fs', obj'[1].fd)
       /\ obj'[1].filePath = fs'.calls[1].name
       /\ obj'[1].fileSize = trace.recSize
       /\ fs'.dir = [fs.dir EXCEPT ![fs'.calls[1].name] =
                         Appended(fs, fs'.calls[1].name, trace.recSize)]

C28_Append ==
    (IsRotating /\ WriteStep /\ FileOpen
        /\ Rot.fileSize < Rot.maxBytesFile /\ AllOk(trace'.results))
    => /\ fs'.calls = <<[tag |-> "write", name |-> Rot.filePath]>>
       /\ fs'.fds = fs.fds
       /\ obj'[1] = [Rot EXCEPT !.fileSize = @ + trace.recSize]
       /\ fs'.dir = [fs.dir EXCEPT ![Rot.filePath] = @ + trace.recSize]

C28_Rotate ==
    (IsRotating /\ WriteStep /\ FileOpen
        /\ Rot.fileSize >= Rot.maxBytesFile /\ AllOk(trace'.results))
    => LET calls == fs'.calls
           k == Len(calls) - 3
       IN  /\ k >= 0
           /\ \A j \in 1..k : calls[j].tag = "unlink"
           /\ Rot.maxBytesDir <= 0 => k = 0
           /\ calls[k + 1] = [tag |-> "close", name |-> Rot.filePath]
           /\ calls[k + 2].tag = "open"
           /\ calls[k + 2].name[1] = fs.now
           /\ calls[k + 3] = [tag |-> "write", name |-> calls[k + 2].name]
           /\ ~IsOpen(fs', Rot.fd)
           /\ Len(fs'.fds) = Len(fs.fds) + 1
           /\ obj'[1].fd = Len(fs'.fds)
           /\ IsOpen(fs', obj'[1].fd)
           /\ obj'[1].filePath = calls[k + 2].name
           /\ obj'[1].fileSize = trace.recSize
           /\ fs'.dir[calls[k + 2].name] > 0

C28_StateMachine ==
    []C28_OneDescriptor
        /\ [][C28_FromNoFile /\ C28_Append /\ C28_Rotate]_vars

C28_Witness ==
    /\ IsRotating
    /\ Rot.maxBytesDir > 0
    /\ trace.op = "write"
    /\ AllOk(trace.results)
    /\ Tags(fs.calls) = <<"unlink", "close", "open", "write">>
    /\ OpenCount(fs) = 1
    /\ Len(fs.fds) = 3

\* C29: every file the rotating sink produces is smaller than
\* maxBytesFile plus the size of the last record written to it: a file
\* exceeds the limit by at most one record.
C29_FileBound ==
    IsRotating
    => \A n \in Files(fs) : fs.dir[n] < Rot.maxBytesFile + trace.recSize

\* the names the last write() unlinked, in the order it unlinked them
Unlinked(f) ==
    [k \in 1..Len(SelectSeq(f.calls, LAMBDA c : c.tag = "unlink"))
        |-> SelectSeq(f.calls, LAMBDA c : c.tag = "unlink")[k].name]

\* the files left after the first k of them were unlinked
LeftAfter(f, g, k) == Files(f) \ {Unlinked(g)[j] : j \in 1..k}

\* this step is a write() in which pruning runs
PruneStep ==
    /\ IsRotating
    /\ WriteStep
    /\ Rot.fd # 0
    /\ Rot.fileSize >= Rot.maxBytesFile
    /\ Rot.maxBytesDir > 0

\* C30: a pruning run with maxBytesDir > 0 deletes files oldest-first by
\* name and stops as soon as the total is within the ceiling.  When it
\* finishes, the total size of the files in the directory is at most
\* maxBytesDir or the current file is the only file left; no file is
\* deleted while an older-named file other than the current one remains;
\* and no file is deleted once the total is within the ceiling.
C30_WithinCeilingOrAlone ==
    PruneStep
    => LET left == LeftAfter(fs, fs', Len(Unlinked(fs')))
       IN  \/ TotalSize(fs, left) <= Rot.maxBytesDir
           \/ left = {Rot.filePath}

C30_OldestFirst ==
    PruneStep
    => \A k \in 1..Len(Unlinked(fs')) :
          /\ Unlinked(fs')[k] \in LeftAfter(fs, fs', k - 1)
          /\ Unlinked(fs')[k] # Rot.filePath
          /\ \A n \in LeftAfter(fs, fs', k) \ {Rot.filePath} :
                 NameLess(Unlinked(fs')[k], n)
          /\ TotalSize(fs, LeftAfter(fs, fs', k - 1)) > Rot.maxBytesDir

C30_PruneRun == [][C30_WithinCeilingOrAlone /\ C30_OldestFirst]_vars

\* C31: the rotating sink deletes files only in a write() that rotates.
\* In every other step (a write() that appends to the current file, a
\* write() that opens a file from NO_FILE, also after close(), a close())
\* no file of the directory disappears or shrinks, and no file other than
\* the one the sink writes to changes at all.
C31_Frame ==
    (IsRotating /\ ~PruneStep)
    => \A n \in Names :
          /\ fs'.dir[n] >= fs.dir[n]
          /\ n # obj'[1].filePath => fs'.dir[n] = fs.dir[n]

C31_DeletesOnlyWhenRotating == [][C31_Frame]_vars

\* a write() from NO_FILE after close() returned although the directory
\* was above its ceiling before the call
C31_Witness ==
    /\ IsRotating
    /\ Rot.maxBytesDir > 0
    /\ trace.prev = "close"
    /\ trace.op = "write"
    /\ AllOk(trace.results)
    /\ Tags(fs.calls) = <<"open", "write">>
    /\ DirTotal - trace.recSize > Rot.maxBytesDir

\* C32: whenever the rotating sink has a file open, its running byte
\* count equals the size on disk of the current file, after any sequence
\* of writes, rotations and close/reopen cycles.
C32_CountIsSize ==
    (IsRotating /\ FileOpen) => Rot.fileSize = fs.dir[Rot.filePath]

\* the sink's descriptor field is null, or a descriptor that is open and
\* belongs to the path recorded as current
Consistent(s, f) ==
    s.fd = 0 \/ (IsOpen(f, s.fd) /\ f.fds[s.fd].name = s.filePath)

\* C33: when openSync or writeSync raises inside SinkRotating.write the
\* error reaches the caller and the sink stays consistent: its descriptor
\* field is null or an open descriptor of the current path, so that no
\* later write() or close() uses or closes a closed descriptor.
C33_ErrorPropagates ==
    (IsRotating /\ WriteStep /\ fs'.faults > fs.faults)
    => trace'.results = <<"error">>

C33_ConsistentState == IsRotating => Consistent(Rot, fs)

C33_NoStaleDescriptor ==
    IsRotating
    => \A k \in 1..Len(fs.calls) : fs.calls[k].tag # "EBADF"

C33_ErrorLeavesConsistent ==
    []C33_ConsistentState /\ []C33_NoStaleDescriptor
        /\ [][C33_ErrorPropagates]_vars

\* ---------------------------------------------------------------- later shunt claims
\* C34: when shunt raises a configuration error (unknown client type
\* without a method list, a path with a missing intermediate, a path whose
\* final value is not callable) the target is left unmodified: none of its
\* method slots holds a wrapper, also when earlier paths of the same list
\* were valid, and nothing has been written to the sink.
C34_ErrorLeavesTargetUnmodified ==
    patched.outcome = "thrown"
    => /\ \A p \in Paths : client.slots[p].layers = 0
       /\ patched.records = <<>>

\* ---------------------------------------------------------------- sink fault claims
\* C35: for every invocation sink.write is attempted at most once, also
\* when that write raises a fault: a write that failed is never followed
\* by a second write for the same invocation, and no error record is
\* written for a call or a sequence that itself completed successfully.
C35_OneAttempt == \A i \in Invs : sink.attempts[i] <= 1

C35_NoErrorRecordForSuccess ==
    \A i \in Invs :
        (call[i].orig = "value" /\ call[i].pc # "idle")
        => \A k \in 1..Len(RecordsOf(i)) : RecordsOf(i)[k].error = NullErr

C35_AtMostOneAttempt == C35_OneAttempt /\ C35_NoErrorRecordForSuccess

\* what the caller of a finished call observes in the run in which no
\* sink.write faults: the value or the error of the original callable
SeenWithoutFault(c) ==
    IF c.origErr # NoError THEN ObsError(c.origErr) ELSE ObsValue(c.origVal)

\* what the consumer observes from a call on the instrumented iterator in
\* the run in which no sink.write faults, given what the underlying
\* sequence did in that call
StepWithoutFault(s, tag, seen) ==
    CASE tag = "item" -> ObsItem(seen.val)
      [] tag = "fail" -> ObsError(s.stepErr)
      [] tag = "throw" -> ObsError(CHOOSE e \in ThrownErrors : TRUE)
      [] OTHER -> ObsDone

\* C36: what the caller of a wrapped callable observes is independent of
\* the sink: in a run in which sink.write faults the caller receives the
\* return value, the promise settlement and the sequence items and
\* termination it receives in the run in which no write faults.
C36_SameCallOutcome ==
    \A i \in Invs :
        call[i].pc \in {"returned", "thrown", "resolved", "rejected"}
        => /\ call[i].seen = SeenWithoutFault(call[i])
           /\ call[i].pc \in {"returned", "resolved"}
                  <=> call[i].origErr = NoError

C36_SameSequenceOutcome ==
    \A i \in Invs :
        con[i].hist # <<>>
        => con[i].last = StepWithoutFault(str[i],
                                          con[i].hist[Len(con[i].hist)],
                                          con[i].last)

C36_IndependentOfSink == C36_SameCallOutcome /\ C36_SameSequenceOutcome

\* C37: a record is immutable once written: after sink.write has been
\* called for a tapped sequence, no later operation on the sequence (such
\* as next() after return()) changes the response list held by a record
\* the sink has received.
C37_WrittenStays ==
    /\ Len(sink'.records) >= Len(sink.records)
    /\ \A k \in 1..Len(sink.records) :
          sink'.records[k].response = sink.records[k].response

C37_RecordImmutable == [][C37_WrittenStays]_vars

\* ---------------------------------------------------------------- concurrency claims
\* a is an initial segment of b
IsPrefix(a, b) == Len(a) <= Len(b) /\ \A k \in 1..Len(a) : a[k] = b[k]

\* invocation i has come to its end once: its call returned, threw or
\* settled, or its tapped sequence had one terminal event after its items
CompletedOnce(i) ==
    \/ call[i].pc \in {"returned", "thrown", "resolved", "rejected"}
    \/ /\ call[i].pc = "streaming"
       /\ \E tag \in {"done", "fail", "return", "throw"} : Steps(i, tag)

\* C38: for any interleaving of concurrent invocations (pending promises,
\* partly consumed tapped sequences) that share one sink, each invocation
\* that has come to its end has exactly one record, whatever the other
\* invocations have done meanwhile, and every record carries the request
\* and the client and method labels of its own invocation and only items
\* its own sequence yielded; the interleaving decides only the order of
\* the records in the sink.
C38_OneRecordEach ==
    \A i \in Invs :
        (CompletedOnce(i) /\ NoFault(i)) => Len(RecordsOf(i)) = 1

C38_OwnData ==
    \A k \in 1..Len(sink.records) :
        LET r == sink.records[k]
            i == r.inv
        IN  /\ call[i].pc # "idle"
            /\ r.request = call[i].req
            /\ r.client = getClientName(wrapper)
            /\ r.method = MethodOf(wrapper, i)
            /\ r.response.tag = "value"
                   => (call[i].orig \in {"value", "promise"}
                          /\ r.response.val = call[i].origVal)
            /\ r.response.tag = "list"
                   => (call[i].pc = "streaming"
                          /\ IsPrefix(r.response.list, str[i].emitted)
                          /\ r.response.list = con[i].got)

PipeResult == trace.results[1]

\* C39: SinkPipe absorbs only the documented conditions: no reader at
\* open (ENXIO), reader gone during the write (EPIPE), pipe full (EAGAIN,
\* retried).  Any other error of openSync or writeSync, and a path that
\* exists but is no FIFO, is raised to the caller of write(), and the
\* record is not reported as delivered: the call does not return, and a
\* fan-out stops at the pipe sink.
C39_AbsorbsOnlyDocumented ==
    (IsPipe /\ trace.op = "write")
    => /\ PipeResult = "dropped"
              => (fs.fifo.sys # <<>> /\ LastSys(fs).tag \in {"ENXIO", "EPIPE"})
       /\ PipeResult = "ok"
              => \A k \in 1..Len(fs.fifo.sys) :
                     fs.fifo.sys[k].tag \in {"open", "wrote", "EAGAIN"}
       /\ \A k \in 1..Len(fs.fifo.sys) :
              fs.fifo.sys[k].tag \in {"EACCES", "EIO"}
              => (k = Len(fs.fifo.sys) /\ PipeResult = "error")
       /\ fs.fifo.node = "regular"
              => (PipeResult = "error" /\ fs.fifo.sys = <<>>
                     /\ Pipe.fd = 0 /\ fs.fifo.got = <<>>)
       /\ PipeResult = "error"
              => (~Returned(trace.results) /\ Len(trace.results) = 1)

\* writeSync raised an error that is neither EAGAIN nor EPIPE after part
\* of the line had been taken: write() raised it
C39_Witness ==
    /\ IsPipe
    /\ trace.op = "write"
    /\ PipeResult = "error"
    /\ Tags(fs.fifo.sys) = <<"open", "wrote", "EIO">>
    /\ Len(obj) = 2
    /\ fs.stream = 0

\* ---------------------------------------------------------------- original callable
\* C40: each invocation of a wrapper invokes the original callable exactly
\* once, within the wrapper call itself, with the caller's this-binding
\* and the caller's arguments unchanged and in order; the original is
\* never invoked again, whatever the outcome of the call or of the sink
\* write.
C40_OriginalInvokedOnce ==
    \A i \in Invs :
        IF call[i].pc = "idle"
        THEN call[i].invoked = 0 /\ call[i].recv = <<>>
        ELSE /\ call[i].invoked = 1
             /\ call[i].recv = <<[this |-> CallerThis(wrapper),
                                  args |-> CallerArgs(wrapper, i)]>>

\* a patched method returned a value, the first sink.write faulted and a
\* second was made: the original ran once, on its parent object
C40_Witness ==
    \E i \in Invs :
        /\ wrapper = "method"
        /\ call[i].orig = "value"
        /\ call[i].pc = "thrown"
        /\ sink.attempts[i] = 2
        /\ call[i].invoked = 1
        /\ call[i].recv[1].this = "messages"
        /\ call[i].recv[1].args = <<Request(i)>>

====
